---- MODULE Spec2Model ----
(***************************************************************************)
(* Model of the statistical and psychometric scoring engine of the        *)
(* quality-culture barometer:                                             *)
(*   src/src/analytics/statistical_pipeline.py  (QualityCultureAnalyzer)  *)
(*   src/src/core/scoring_system.py   (NPQSScorer, MaturityScorer,        *)
(*                                     StatisticalValidator)              *)
(*   src/src/core/validation_framework.py  (PsychometricValidator)        *)
(*   src/src/sectors/pharma_assessment.py  (maturity levels)              *)
(*   src/src/continuous_improvement/pdca_loop.py  (PDCALoop)              *)
(*   src/src/core/assessment_engine.py  (QualityCultureAssessment)        *)
(*                                                                         *)
(* The engine is a set of pure functions over an in-memory response       *)
(* matrix.  Each function is an operator; each family of functions has a  *)
(* specification whose Init draws the inputs from bounded sets and whose  *)
(* actions apply the functions and store what they return in `results`.   *)
(*                                                                         *)
(* Numbers.  Floating point values are modelled as exact rationals        *)
(* extended with the IEEE specials the code can produce: a value is a     *)
(* record [k, n, d] with k = "num" (the rational n/d, d > 0, in lowest    *)
(* terms), "nan", "inf" or "ninf".  round(x, p) is round-half-even on the *)
(* exact value.                                                           *)
(***************************************************************************)
EXTENDS Integers, Sequences, FiniteSets, TLC

VARIABLES responses, data, structure, score, weights, metric_scores, benchmark,
          scaler, improvement_actions, now, config, items_bank, results

vars == <<responses, data, structure, score, weights, metric_scores, benchmark,
          scaler, improvement_actions, now, config, items_bank, results>>

(***************************************************************************)
(* Bounds of the model                                                    *)
(***************************************************************************)
MaxResp == 3
MaxRows == 2
MaxRelRows == 3
MaxRunRows == 3

(***************************************************************************)
(* Extended rational arithmetic (numpy float64 semantics)                 *)
(***************************************************************************)
Abs(x) == IF x < 0 THEN -x ELSE x

RECURSIVE Gcd(_, _)
Gcd(a, b) == IF b = 0 THEN a ELSE Gcd(b, a % b)

\* n/d in lowest terms with a positive denominator (d # 0)
Rat(n, d) ==
    LET s == IF d < 0 THEN -1 ELSE 1
        g == Gcd(Abs(n), Abs(d))
    IN  [k |-> "num", n |-> (s * n) \div g, d |-> (s * d) \div g]

N(i) == [k |-> "num", n |-> i, d |-> 1]
NaN == [k |-> "nan", n |-> 0, d |-> 1]
PosInf == [k |-> "inf", n |-> 0, d |-> 1]
NegInf == [k |-> "ninf", n |-> 0, d |-> 1]

IsNum(x) == x.k = "num"
IsNaN(x) == x.k = "nan"

\* comparisons: every comparison with nan is False
Lt(x, y) ==
    IF IsNaN(x) \/ IsNaN(y) THEN FALSE
    ELSE IF x.k = "ninf" THEN y.k # "ninf"
    ELSE IF x.k = "inf" THEN FALSE
    ELSE IF y.k = "inf" THEN TRUE
    ELSE IF y.k = "ninf" THEN FALSE
    ELSE x.n * y.d < y.n * x.d

Eq(x, y) ==
    IF IsNaN(x) \/ IsNaN(y) THEN FALSE
    ELSE IF IsNum(x) /\ IsNum(y) THEN x.n * y.d = y.n * x.d
    ELSE x.k = y.k

Le(x, y) == Lt(x, y) \/ Eq(x, y)
Ge(x, y) == Le(y, x)
Gt(x, y) == Lt(y, x)

Sign(x) == IF x.k = "inf" THEN 1 ELSE IF x.k = "ninf" THEN -1
           ELSE IF x.n > 0 THEN 1 ELSE IF x.n < 0 THEN -1 ELSE 0

Neg(x) == IF IsNaN(x) THEN NaN
          ELSE IF x.k = "inf" THEN NegInf
          ELSE IF x.k = "ninf" THEN PosInf
          ELSE Rat(-x.n, x.d)

Add(x, y) ==
    IF IsNaN(x) \/ IsNaN(y) THEN NaN
    ELSE IF IsNum(x) /\ IsNum(y) THEN Rat(x.n * y.d + y.n * x.d, x.d * y.d)
    ELSE IF IsNum(x) THEN y
    ELSE IF IsNum(y) THEN x
    ELSE IF x.k = y.k THEN x ELSE NaN

Sub(x, y) == Add(x, Neg(y))

Mul(x, y) ==
    IF IsNaN(x) \/ IsNaN(y) THEN NaN
    ELSE IF IsNum(x) /\ IsNum(y) THEN Rat(x.n * y.n, x.d * y.d)
    ELSE IF Sign(x) * Sign(y) = 0 THEN NaN
    ELSE IF Sign(x) * Sign(y) > 0 THEN PosInf ELSE NegInf

\* float division: x/0 is nan, inf or -inf (a RuntimeWarning, no exception)
Div(x, y) ==
    IF IsNaN(x) \/ IsNaN(y) THEN NaN
    ELSE IF IsNum(x) /\ IsNum(y) THEN
        IF y.n = 0 THEN IF x.n = 0 THEN NaN
                        ELSE IF x.n > 0 THEN PosInf ELSE NegInf
        ELSE Rat(x.n * y.d, x.d * y.n)
    ELSE IF IsNum(y) THEN
        IF (Sign(x) > 0) = (y.n >= 0) THEN PosInf ELSE NegInf
    ELSE IF IsNum(x) THEN N(0)
    ELSE NaN

\* round(x, p) with m = 10^p: nearest multiple of 1/m, ties to even
Round(x, m) ==
    IF ~IsNum(x) THEN x
    ELSE LET q == (x.n * m) \div x.d
             r == (x.n * m) - q * x.d
             up == IF 2 * r > x.d THEN 1
                   ELSE IF 2 * r < x.d THEN 0
                   ELSE q % 2
         IN  Rat(q + up, m)

\* Python's builtin max(a, b): b is taken only when b > a
PyMax(a, b) == IF Gt(b, a) THEN b ELSE a

RECURSIVE SumSeq(_)
SumSeq(s) == IF s = <<>> THEN N(0) ELSE Add(Head(s), SumSeq(Tail(s)))

\* the sequence s restricted to the elements satisfying Test
SelectSeqNotNaN(s) == SelectSeq(s, LAMBDA v : ~IsNaN(v))

\* pandas Series.sum(): missing values skipped, the empty sum is 0
NanSum(s) == SumSeq(SelectSeqNotNaN(s))

\* pandas Series.mean(): missing values skipped, nan when nothing is left
NanMean(s) ==
    LET v == SelectSeqNotNaN(s)
    IN  IF Len(v) = 0 THEN NaN ELSE Div(SumSeq(v), N(Len(v)))

\* number of entries of a boolean mask that are True: (mask).sum()
CountIf(s, Test(_)) == Len(SelectSeq(s, Test))

\* all sequences over S of length 0..n
SeqsUpTo(S, n) == UNION {[1..m -> S] : m \in 0..n}

(***************************************************************************)
(* NPQS  (NPQSCalculator)                                                 *)
(***************************************************************************)
promoter_threshold == 9
passive_low == 7
passive_high == 8
detractor_max == 6

\* values of the recommendation item drawn by the model: integers of the
\* 0-10 scale around the cut points, two non-integer values, and missing
RecValues == {N(0), N(6), Rat(13, 2), N(7), N(8), Rat(17, 2), N(9), N(10), NaN}

Pct(count, total) == Round(Mul(Div(N(count), N(total)), N(100)), 100)

\* QualityCultureAnalyzer.calculate_npqs_score, on the recommendation column
calculate_npqs_score(rec) ==
    LET promoters == CountIf(rec, LAMBDA v : Ge(v, N(promoter_threshold)))
        detractors == CountIf(rec, LAMBDA v : Le(v, N(detractor_max)))
        total == Len(SelectSeqNotNaN(rec))
        npqs == IF total > 0
                THEN Mul(Div(N(promoters - detractors), N(total)), N(100))
                ELSE N(0)
    IN  [npqs_score |-> Round(npqs, 100),
         promoters_pct |-> IF total > 0 THEN Pct(promoters, total) ELSE N(0),
         detractors_pct |-> IF total > 0 THEN Pct(detractors, total) ELSE N(0),
         passives_pct |-> IF total > 0
                          THEN Pct(total - promoters - detractors, total)
                          ELSE N(0),
         n_responses |-> total]

\* NPQSScorer.calculate_npqs
calculate_npqs(rec) ==
    IF Len(rec) = 0
    THEN [npqs |-> N(0), promoters |-> 0, passives |-> 0, detractors |-> 0]
    ELSE
    LET promoters == CountIf(rec, LAMBDA v : Ge(v, N(promoter_threshold)))
        passives == CountIf(rec, LAMBDA v : Ge(v, N(passive_low))
                                            /\ Le(v, N(passive_high)))
        detractors == CountIf(rec, LAMBDA v : Le(v, N(detractor_max)))
        total == Len(rec)
    IN  [npqs |-> Round(Mul(Div(N(promoters - detractors), N(total)), N(100)), 100),
         promoters |-> promoters,
         passives |-> passives,
         detractors |-> detractors,
         promoter_pct |-> Pct(promoters, total),
         passive_pct |-> Pct(passives, total),
         detractor_pct |-> Pct(detractors, total)]

(***************************************************************************)
(* Maturity levels  (MaturityScorer)                                      *)
(***************************************************************************)
\* QualityCultureAnalyzer._calculate_maturity_level, the "level" it returns
_calculate_maturity_level_strict(s) ==
    IF Gt(s, N(80)) THEN "Excellence"
    ELSE IF Gt(s, N(60)) THEN "Amélioration"
    ELSE IF Gt(s, N(40)) THEN "Développement"
    ELSE "Initial"

_calculate_maturity_level(s) ==
    IF Ge(s, N(80)) THEN "Excellence"
    ELSE IF Ge(s, N(60)) THEN "Amélioration"
    ELSE IF Ge(s, N(40)) THEN "Développement"
    ELSE "Initial"

\* MaturityScorer._get_maturity_level
_get_maturity_level_strict(s) ==
    IF Gt(s, Rat(9, 2)) THEN "Optimizing"
    ELSE IF Gt(s, Rat(7, 2)) THEN "Quantitatively Managed"
    ELSE IF Gt(s, Rat(5, 2)) THEN "Defined"
    ELSE IF Gt(s, Rat(3, 2)) THEN "Managed"
    ELSE "Initial/Ad-hoc"

_get_maturity_level(s) ==
    IF Ge(s, Rat(9, 2)) THEN "Optimizing"
    ELSE IF Ge(s, Rat(7, 2)) THEN "Quantitatively Managed"
    ELSE IF Ge(s, Rat(5, 2)) THEN "Defined"
    ELSE IF Ge(s, Rat(3, 2)) THEN "Managed"
    ELSE "Initial/Ad-hoc"

\* PharmaQualityCultureAssessment.maturity_matrix
maturity_matrix ==
    (1 :> "Initial/Ad-hoc") @@ (2 :> "Developing") @@ (3 :> "Defined") @@
    (4 :> "Managed") @@ (5 :> "Optimizing")

\* np.ceil of a number
Ceil(x) == -((-x.n) \div x.d)

\* PharmaQualityCultureAssessment._get_maturity_level: level
\* max(1, min(5, int(ceil(score / 20)))); int() raises on nan and on an
\* infinite value
Pharma_get_maturity_level(s) ==
    IF IsNaN(s) THEN [error |-> "ValueError"]
    ELSE IF ~IsNum(s) THEN [error |-> "OverflowError"]
    ELSE LET c == Ceil(Div(s, N(20)))
             level == IF (IF 5 < c THEN 5 ELSE c) > 1
                      THEN (IF 5 < c THEN 5 ELSE c) ELSE 1
         IN  [level |-> maturity_matrix[level]]

(***************************************************************************)
(* Response matrix and dimension structure                                *)
(*                                                                         *)
(* A DataFrame is [columns, rows]: the set of column names and the        *)
(* sequence of respondent rows, each a function from the columns to a     *)
(* value (nan = missing).  A dimension structure is the ordered mapping   *)
(* dimension -> items, a sequence of [dimension, items].                  *)
(***************************************************************************)
\* df is a DataFrame with columns among cols, at most maxRows respondents
\* and values in vals
IsFrame(df, cols, vals, maxRows) ==
    \E c \in SUBSET cols : \E m \in 0..maxRows : \E r \in [1..m -> [c -> vals]] :
        df = [columns |-> c, rows |-> r]

Range(s) == {s[i] : i \in 1..Len(s)}

\* data[col]: one column as a sequence over the respondents
Column(df, col) == [i \in 1..Len(df.rows) |-> df.rows[i][col]]

\* data[items].iloc[i]: one respondent's values of the listed items
RowItems(df, items, i) == [j \in 1..Len(items) |-> df.rows[i][items[j]]]

\* all(item in data.columns for item in items)
AllItemsPresent(df, items) == Range(items) \subseteq df.columns

\* data[items].mean(axis=1): per respondent, the mean of the non-missing
\* items (nan when all of them are missing)
RowMeans(df, items) == [i \in 1..Len(df.rows) |-> NanMean(RowItems(df, items, i))]

\* data[items].sum(axis=1): per respondent, missing items counted as 0
RowSums(df, items) == [i \in 1..Len(df.rows) |-> NanSum(RowItems(df, items, i))]

\* the dimensions of the structure whose items are all columns of the data,
\* in the order of the structure
ScoredEntries(df, st) == SelectSeq(st, LAMBDA e : AllItemsPresent(df, e.items))

RECURSIVE Insert(_, _)
Insert(x, s) == IF s = <<>> THEN <<x>>
                ELSE IF Le(x, Head(s)) THEN <<x>> \o s
                ELSE <<Head(s)>> \o Insert(x, Tail(s))

RECURSIVE Sorted(_)
Sorted(s) == IF s = <<>> THEN <<>> ELSE Insert(Head(s), Sorted(Tail(s)))

\* pandas Series.quantile(qn/qd): linear interpolation between the order
\* statistics of the non-missing values, nan when there is none
Quantile(s, qn, qd) ==
    LET v == Sorted(SelectSeqNotNaN(s))
        n == Len(v)
        lo == ((n - 1) * qn) \div qd
        frac == Rat((n - 1) * qn - lo * qd, qd)
    IN  IF n = 0 THEN NaN
        ELSE IF lo + 2 > n THEN v[lo + 1]
        ELSE Add(v[lo + 1], Mul(frac, Sub(v[lo + 2], v[lo + 1])))

(***************************************************************************)
(* Dimension scores  (DimensionScorer)                                    *)
(***************************************************************************)
\* the factor of "Convert 5-point to 0-100"
score_factor == 20

\* one dimension's entry of calculate_dimension_scores (std_score, a square
\* root, has no exact value here and is left out)
DimensionEntry(df, items, factor) ==
    LET scores == [i \in 1..Len(df.rows) |->
                      Mul(NanMean(RowItems(df, items, i)), N(factor))]
    IN  [individual_scores |-> scores,
         mean_score |-> Round(NanMean(scores), 100),
         median_score |-> Round(Quantile(scores, 1, 2), 100),
         percentile_25 |-> Round(Quantile(scores, 1, 4), 100),
         percentile_75 |-> Round(Quantile(scores, 3, 4), 100),
         maturity_level |-> _calculate_maturity_level(NanMean(scores))]

\* a dict built by a loop over the structure that skips the dimensions
\* with an item missing from the data: dimension -> Entry(items)
PerDimension(df, st, Entry(_)) ==
    LET es == ScoredEntries(df, st)
    IN  [d \in {es[i].dimension : i \in 1..Len(es)} |->
            Entry((CHOOSE e \in Range(es) : e.dimension = d).items)]

\* QualityCultureAnalyzer.calculate_dimension_scores
calculate_dimension_scores_25(df, st) ==
    PerDimension(df, st, LAMBDA items : DimensionEntry(df, items, 25))

calculate_dimension_scores(df, st) ==
    PerDimension(df, st, LAMBDA items : DimensionEntry(df, items, score_factor))

(***************************************************************************)
(* Reliability  (ReliabilityValidator)                                    *)
(***************************************************************************)
\* default of alpha_threshold in both validators
alpha_threshold == Rat(7, 10)

\* pandas Series.var(): unbiased sample variance of the non-missing values,
\* nan with fewer than two of them
Var(s) ==
    LET v == SelectSeqNotNaN(s)
        n == Len(v)
        m == Div(SumSeq(v), N(n))
        sq == [i \in 1..n |-> Mul(Sub(v[i], m), Sub(v[i], m))]
    IN  IF n < 2 THEN NaN ELSE Div(SumSeq(sq), N(n - 1))

\* the columns of a DataFrame in some order
RECURSIVE SetToSeq(_)
SetToSeq(S) == IF S = {} THEN <<>>
               ELSE LET x == CHOOSE x \in S : TRUE
                    IN  <<x>> \o SetToSeq(S \ {x})

\* DataFrame.empty: no row or no column
IsEmpty(df) == Len(df.rows) = 0 \/ df.columns = {}

\* data.var().sum(): the item variances, the undefined ones skipped
ItemVarSum(df) ==
    LET cols == SetToSeq(df.columns)
    IN  NanSum([j \in 1..Len(cols) |-> Var(Column(df, cols[j]))])

\* data.sum(axis=1).var()
TotalVar(df) == Var(RowSums(df, SetToSeq(df.columns)))

\* (k / (k - 1)) * (1 - sum of item variances / variance of the row sums)
AlphaFormula(df) ==
    LET k == Cardinality(df.columns)
    IN  Mul(Rat(k, k - 1), Sub(N(1), Div(ItemVarSum(df), TotalVar(df))))

\* PsychometricValidator._calculate_cronbach_alpha
_calculate_cronbach_alpha_unclamped(df) ==
    IF IsEmpty(df) \/ Cardinality(df.columns) < 2 THEN N(0)
    ELSE IF Eq(TotalVar(df), N(0)) THEN N(0)
    ELSE AlphaFormula(df)

_calculate_cronbach_alpha(df) ==
    IF IsEmpty(df) \/ Cardinality(df.columns) < 2 THEN N(0)
    ELSE IF Eq(TotalVar(df), N(0)) THEN N(0)
    ELSE PyMax(N(0), AlphaFormula(df))

\* StatisticalValidator.calculate_reliability
calculate_reliability(df) ==
    IF IsEmpty(df) \/ Cardinality(df.columns) < 2
    THEN [cronbach_alpha |-> N(0), reliable |-> FALSE]
    ELSE LET alpha == AlphaFormula(df)
         IN  [cronbach_alpha |-> Round(alpha, 1000),
              reliable |-> Ge(alpha, alpha_threshold),
              n_items |-> Cardinality(df.columns),
              n_responses |-> Len(df.rows)]

(***************************************************************************)
(* Correlation, composite reliability and AVE                             *)
(*                                                                         *)
(* A correlation is the signed square root of an exact rational.  The     *)
(* root is carried to four decimals: its exact value when it has at most  *)
(* four decimals, otherwise the midpoint of its two four-decimal          *)
(* neighbours, so that rounding it to three decimals and comparing it     *)
(* with a three-decimal threshold give the answers of the exact root.     *)
(* The composite reliability is computed on the loadings truncated to     *)
(* four decimals.                                                          *)
(***************************************************************************)
\* default of ave_threshold in both validators
ave_threshold == Rat(1, 2)

RECURSIVE ISqrtBetween(_, _, _)
ISqrtBetween(v, lo, hi) ==
    IF lo = hi THEN lo
    ELSE LET mid == (lo + hi + 1) \div 2
         IN  IF mid * mid <= v THEN ISqrtBetween(v, mid, hi)
             ELSE ISqrtBetween(v, lo, mid - 1)

\* the integer part of the square root of v >= 0
ISqrt(v) == ISqrtBetween(v, 0, 46340)

\* <<floor(n * 10^k / d), the remainder>>, digit by digit
RECURSIVE LongDiv(_, _, _)
LongDiv(n, d, k) ==
    IF k = 0 THEN <<n \div d, n % d>>
    ELSE LET p == LongDiv(n, d, k - 1)
         IN  <<10 * p[1] + (10 * p[2]) \div d, (10 * p[2]) % d>>

\* the square root of 0 <= x <= 1
Sqrt(x) ==
    IF ~IsNum(x) THEN NaN
    ELSE LET ld == LongDiv(x.n, x.d, 8)
             f == ISqrt(ld[1])
         IN  IF ld[2] = 0 /\ f * f = ld[1] THEN Rat(f, 10000)
             ELSE Rat(2 * f + 1, 20000)

\* abs() of a float
AbsR(x) == IF IsNaN(x) THEN NaN
           ELSE IF x.k = "ninf" THEN PosInf
           ELSE IF IsNum(x) /\ x.n < 0 THEN Neg(x) ELSE x

\* the respondents for whom both series have a value
BothValid(x, y) ==
    SelectSeq([i \in 1..Len(x) |-> i], LAMBDA i : ~IsNaN(x[i]) /\ ~IsNaN(y[i]))

Pick(x, idx) == [j \in 1..Len(idx) |-> x[idx[j]]]

\* unbiased sample covariance of two complete series of the same length
Cov(x, y) ==
    LET n == Len(x)
        mx == Div(SumSeq(x), N(n))
        my == Div(SumSeq(y), N(n))
        pr == [i \in 1..n |-> Mul(Sub(x[i], mx), Sub(y[i], my))]
    IN  IF n < 2 THEN NaN ELSE Div(SumSeq(pr), N(n - 1))

\* the square of Series.corr: (cov / var_x) * (cov / var_y) over the pairwise
\* complete respondents; nan (0/0) when there are fewer than two of them or
\* when one of the series does not vary
Corr2(x, y) ==
    LET idx == BothValid(x, y)
        xs == Pick(x, idx)
        ys == Pick(y, idx)
        c == Cov(xs, ys)
    IN  Mul(Div(c, Var(xs)), Div(c, Var(ys)))

\* pandas Series.corr (Pearson)
Corr(x, y) ==
    LET idx == BothValid(x, y)
        r == Sqrt(Corr2(x, y))
    IN  IF Sign(Cov(Pick(x, idx), Pick(y, idx))) < 0 THEN Neg(r) ELSE r

\* for every column: abs(data[col].corr(data.mean(axis=1)))
Loadings(df) ==
    LET cols == SetToSeq(df.columns)
        total_score == RowMeans(df, cols)
    IN  [j \in 1..Len(cols) |-> AbsR(Corr(Column(df, cols[j]), total_score))]

\* for every column: loading ** 2, the squared correlation
SquaredLoadings(df) ==
    LET cols == SetToSeq(df.columns)
        total_score == RowMeans(df, cols)
    IN  [j \in 1..Len(cols) |-> Corr2(Column(df, cols[j]), total_score)]

\* np.mean of a list: nan as soon as one element is nan
MeanSeq(s) == Div(SumSeq(s), N(Len(s)))

RECURSIVE SumInt(_)
SumInt(s) == IF s = <<>> THEN 0 ELSE Head(s) + SumInt(Tail(s))

\* a loading in units of 1/10000
Units(l) == (l.n * 10000) \div l.d

\* the loadings in units of 1/10000, and their squares
UnitsOf(ls) == [j \in 1..Len(ls) |-> Units(ls[j])]
Squares(us) == [j \in 1..Len(us) |-> us[j] * us[j]]

\* (sum_loadings ** 2) / ((sum_loadings ** 2) + sum_squared_loadings);
\* zero_guard is the test "if sum_loadings == 0: return 0.0"
CompositeReliabilityOf(sum_loadings, sum_squared_loadings, zero_guard) ==
    IF sum_loadings = 0 THEN IF zero_guard THEN N(0) ELSE NaN
    ELSE Rat(sum_loadings * sum_loadings,
             sum_loadings * sum_loadings + sum_squared_loadings)

\* sum(loadings) is nan as soon as one loading is nan
CompositeReliabilityFrom(ls, zero_guard) ==
    IF \E j \in 1..Len(ls) : IsNaN(ls[j]) THEN NaN
    ELSE CompositeReliabilityOf(SumInt(UnitsOf(ls)),
                                SumInt(Squares(UnitsOf(ls))), zero_guard)

\* "if data.empty: return 0.0", then the formula on the loadings (bound as
\* a value so that they are computed once)
CompositeReliability(df, zero_guard) ==
    IF IsEmpty(df) THEN N(0)
    ELSE CHOOSE cr \in {CompositeReliabilityFrom(ls, zero_guard) :
                          ls \in {Loadings(df) \o <<>>}} : TRUE

\* PsychometricValidator._calculate_composite_reliability
_calculate_composite_reliability(df) == CompositeReliability(df, TRUE)

\* StatisticalValidator._calculate_composite_reliability
StatisticalValidator_calculate_composite_reliability(df) ==
    CompositeReliability(df, FALSE)

\* PsychometricValidator._calculate_average_variance_extracted
_calculate_average_variance_extracted(df) ==
    IF IsEmpty(df) THEN N(0) ELSE MeanSeq(SquaredLoadings(df))

\* StatisticalValidator._calculate_ave
_calculate_ave(df) ==
    IF IsEmpty(df) THEN N(0)
    ELSE IF Cardinality(df.columns) = 1
         THEN Var(Column(df, CHOOSE c \in df.columns : TRUE))
    ELSE MeanSeq(SquaredLoadings(df))

\* a/b >= c/d for a, c >= 0 and b, d > 0, by continued fractions (the
\* products a*d and c*b may exceed the integer range)
RECURSIVE GeFrac(_, _, _, _)
GeFrac(a, b, c, d) ==
    IF a \div b # c \div d THEN a \div b > c \div d
    ELSE IF c % d = 0 THEN TRUE
    ELSE IF a % b = 0 THEN FALSE
    ELSE GeFrac(d, c % d, b, a % b)

\* x >= y for a composite reliability x and a threshold y > 0
GeWide(x, y) == IsNum(x) /\ IsNum(y) /\ GeFrac(x.n, x.d, y.n, y.d)

\* the largest q in lo..hi with q/m <= x
RECURSIVE FloorScaled(_, _, _, _)
FloorScaled(x, m, lo, hi) ==
    IF lo = hi THEN lo
    ELSE LET mid == (lo + hi + 1) \div 2
         IN  IF GeFrac(x.n, x.d, mid, m) THEN FloorScaled(x, m, mid, hi)
             ELSE FloorScaled(x, m, lo, mid - 1)

\* round(x, p) with m = 10^p for a composite reliability x, ties to even
RoundWide(x, m) ==
    IF ~IsNum(x) THEN x
    ELSE LET q == FloorScaled(x, m, 0, m * (x.n \div x.d + 1))
             above == GeFrac(x.n, x.d, 2 * q + 1, 2 * m)
             tie == above /\ GeFrac(2 * q + 1, 2 * m, x.n, x.d)
             up == IF tie THEN q % 2 ELSE IF above THEN 1 ELSE 0
         IN  Rat(q + up, m)

(***************************************************************************)
(* Weighted maturity  (MaturityScorer.calculate_maturity)                 *)
(***************************************************************************)
\* the empty dict
NoEntries == [o \in {} |-> 0]

\* MaturityScorer._get_maturity_distribution: per column, how many of its
\* values fall in each level (a missing value compares False everywhere
\* and lands in the lowest level)
_get_maturity_distribution(df) ==
    [c \in df.columns |->
        LET col == Column(df, c)
            ls == {_get_maturity_level(col[i]) : i \in 1..Len(col)}
        IN  [l \in ls |-> Cardinality({i \in 1..Len(col) :
                                          _get_maturity_level(col[i]) = l})]]

\* sum of f[x] over x in S
RECURSIVE SumOver(_, _)
SumOver(S, f) == IF S = {} THEN N(0)
                 ELSE LET x == CHOOSE x \in S : TRUE
                      IN  Add(f[x], SumOver(S \ {x}, f))

\* the dict of calculate_maturity, given the weights in force; the division
\* by total_weight: with no weighted column both operands are the int 0 and
\* Python raises ZeroDivisionError, otherwise the sum is a numpy float and
\* the division by 0 yields nan or inf
MaturityDict(df, w) ==
    LET dims == df.columns \cap DOMAIN w
        entry == [d \in dims |->
                    LET m == NanMean(Column(df, d))
                    IN  [score |-> Round(m, 100),
                         weighted_score |-> Round(Mul(m, w[d]), 100),
                         level |-> _get_maturity_level(m)]]
        total_weight == SumOver(dims, w)
        weighted_sum == SumOver(dims, [d \in dims |-> entry[d].weighted_score])
        overall_score == Div(weighted_sum, total_weight)
    IN  IF dims = {} THEN [error |-> "ZeroDivisionError"]
        ELSE [overall_maturity |-> Round(overall_score, 100),
              overall_level |-> _get_maturity_level(overall_score),
              dimension_scores |-> entry,
              maturity_distribution |-> _get_maturity_distribution(df)]

\* MaturityScorer.calculate_maturity; wts = [given, w]: given is False for
\* weights=None, and then every column weighs 1.0
calculate_maturity(df, wts) ==
    IF IsEmpty(df)
    THEN [overall_maturity |-> N(0), dimension_scores |-> NoEntries,
          level |-> "Initial/Ad-hoc"]
    ELSE MaturityDict(df, IF wts.given THEN wts.w ELSE [c \in df.columns |-> N(1)])

(***************************************************************************)
(* Orchestration  (AnalysisOrchestrator)                                  *)
(*                                                                         *)
(* A call that raises returns [error |-> <exception>].  The library calls *)
(* are modelled by when they raise: DataFrame[list] raises KeyError on an *)
(* absent column, assigning a column list of the wrong length raises      *)
(* ValueError, StandardScaler raises ValueError on 0 rows or 0 columns,   *)
(* PCA and KMeans raise ValueError on missing values, and KMeans raises   *)
(* ValueError with fewer rows than clusters.                              *)
(***************************************************************************)
Raised(r) == "error" \in DOMAIN r

\* every item of the structure
AllItems(st) == UNION {Range(st[i].items) : i \in 1..Len(st)}

\* data[items]
SubFrame(df, items) ==
    [columns |-> Range(items),
     rows |-> [i \in 1..Len(df.rows) |-> [c \in Range(items) |-> df.rows[i][c]]]]

HasMissing(df, cols) == \E i \in 1..Len(df.rows) : \E c \in cols : IsNaN(df.rows[i][c])

\* QualityCultureAnalyzer._determine_optimal_clusters
_determine_optimal_clusters == 3

\* KMeans(random_state=42)
random_state == 42

\* a sequence with its elements computed (np.array)
Array(s) == s \o <<>>

\* StandardScaler(): nothing fitted yet
NoScaler == [fitted |-> FALSE]

\* cluster_data: per respondent, the mean of the items of every scored
\* dimension
ClusterData(df, scored) ==
    Array([i \in 1..Len(df.rows) |->
              Array([j \in 1..Len(scored) |->
                        NanMean(RowItems(df, scored[j].items, i))])])

\* the non-missing values of column j
ClusterColumn(X, j) == SelectSeq([i \in 1..Len(X) |-> X[i][j]], IsNum)

SumSq(s) == SumSeq([i \in 1..Len(s) |-> Mul(s[i], s[i])])

\* the incremental mean and variance of a column (StandardScaler keeps
\* n_samples_seen_, mean_ and var_ and ignores missing values)
ColumnStats(n, mean, var, vals) ==
    LET n2 == n + Len(vals)
        new_sum == Add(Mul(N(n), mean), SumSeq(vals))
        new_sumsq == Add(Mul(N(n), Add(var, Mul(mean, mean))), SumSq(vals))
    IN  IF n2 = 0 THEN [n_samples_seen_ |-> 0, mean_ |-> NaN, var_ |-> NaN]
        ELSE [n_samples_seen_ |-> n2,
              mean_ |-> Div(new_sum, N(n2)),
              var_ |-> Sub(Div(new_sumsq, N(n2)),
                           Mul(Div(new_sum, N(n2)), Div(new_sum, N(n2))))]

\* StandardScaler.partial_fit on p columns: the statistics seen so far are
\* updated with X
partial_fit(sc, X, p) ==
    [fitted |-> TRUE,
     stats |-> Array([j \in 1..p |->
                  IF sc.fitted /\ Len(sc.stats) = p
                  THEN ColumnStats(sc.stats[j].n_samples_seen_, sc.stats[j].mean_,
                                   sc.stats[j].var_, ClusterColumn(X, j))
                  ELSE ColumnStats(0, N(0), N(0), ClusterColumn(X, j))])]

\* fit that keeps what earlier calls have fitted
fit_without_reset(sc, X, p) ==
    IF Len(X) = 0 THEN sc ELSE partial_fit(sc, X, p)

\* StandardScaler.fit: the scaler is reset, then fitted on X; with no row
\* the fit raises and leaves the scaler reset
fit(sc, X, p) ==
    IF Len(X) = 0 THEN NoScaler ELSE partial_fit(NoScaler, X, p)

\* StandardScaler.transform: (x - mean_) / sqrt(var_), a variance of 0
\* scaling by 1; the result keeps the centred values and the squared scale
transform(sc, X) ==
    [centred |-> Array([i \in 1..Len(X) |->
                    Array([j \in 1..Len(sc.stats) |->
                              Sub(X[i][j], sc.stats[j].mean_)])]),
     scale2 |-> Array([j \in 1..Len(sc.stats) |->
                    IF Eq(sc.stats[j].var_, N(0)) THEN N(1)
                    ELSE sc.stats[j].var_])]

\* the product of the squared scales of the columns other than j
RECURSIVE OtherScales(_, _, _)
OtherScales(S, j, m) ==
    IF m = 0 THEN N(1)
    ELSE IF m = j THEN OtherScales(S, j, m - 1)
    ELSE Mul(S.scale2[m], OtherScales(S, j, m - 1))

\* the squared Euclidean distance of rows a and b of the scaled data, in
\* units of 1 / (the product of the squared scales): the sum over the
\* columns of (difference of the centred values)^2 / scale2
Distance2(S, a, b) ==
    SumSeq([j \in 1..Len(S.scale2) |->
               Mul(Mul(Sub(S.centred[a][j], S.centred[b][j]),
                       Sub(S.centred[a][j], S.centred[b][j])),
                   OtherScales(S, j, Len(S.scale2)))])

Lcm(a, b) == (a \div Gcd(a, b)) * b

RECURSIVE LcmOf(_)
LcmOf(s) == IF s = <<>> THEN 1 ELSE Lcm(Head(s), LcmOf(Tail(s)))

\* the common denominator of the distances from row a on
RECURSIVE CommonDenominator(_, _)
CommonDenominator(D, a) ==
    IF a > Len(D) THEN 1
    ELSE Lcm(LcmOf([b \in 1..Len(D) |-> D[a][b].d]), CommonDenominator(D, a + 1))

\* the distances as whole numbers of 1/den
Whole(D, den) ==
    Array([a \in 1..Len(D) |->
              Array([b \in 1..Len(D) |-> D[a][b].n * (den \div D[a][b].d)])])

\* the squared distances of all pairs of rows, as whole numbers of a common
\* unit
DistanceMatrix(S) ==
    CHOOSE W \in
        {Whole(D, CommonDenominator(D, 1)) :
            D \in {Array([a \in 1..Len(S.centred) |->
                       Array([b \in 1..Len(S.centred) |-> Distance2(S, a, b)])])}} :
        TRUE

MaxLabel(l) == IF l = <<>> THEN 0 ELSE CHOOSE c \in Range(l) : \A e \in Range(l) : e <= c

\* the labellings of n points with at most k labels
RECURSIVE Labellings(_, _)
Labellings(n, k) ==
    IF n = 0 THEN {<<>>}
    ELSE UNION {{Append(l, c) : c \in 1..(IF MaxLabel(l) < k THEN MaxLabel(l) + 1
                                          ELSE k)} :
                   l \in Labellings(n - 1, k)}

RECURSIVE Factorial(_)
Factorial(n) == IF n = 0 THEN 1 ELSE n * Factorial(n - 1)

\* the within-cluster sum of squares of a labelling, times n!: per cluster,
\* the sum of the squared distances of its pairs over its size
Inertia(D, l, k) ==
    SumInt([c \in 1..k |->
        LET members == {i \in 1..Len(l) : l[i] = c}
        IN  IF members = {} THEN 0
            ELSE (Factorial(Len(l)) \div Cardinality(members))
                     * SumInt([i \in 1..Len(l) |->
                           SumInt([j \in 1..Len(l) |->
                               IF i < j /\ l[i] = c /\ l[j] = c THEN D[i][j]
                               ELSE 0])])])

\* of a set of <<inertia, labelling>> one of least inertia
LeastInertia(ps) == CHOOSE q \in ps : \A r \in ps : q[1] <= r[1]

\* the labels of the points at distances D: equal points share a label and
\* the inertia is least
BestLabels(D, k) ==
    LeastInertia({<<Inertia(D, l, k), l>> :
                     l \in {m \in Labellings(Len(D), k) :
                               \A a, b \in 1..Len(D) :
                                   D[a][b] = 0 => m[a] = m[b]}})[2]

\* KMeans(n_clusters, random_state).fit_predict: for a given random_state a
\* function of the scaled data
fit_predict(S, n_clusters, seed) ==
    CHOOSE l \in {BestLabels(D, n_clusters) : D \in {DistanceMatrix(S)}} : TRUE

\* Series.idxmax / idxmin over the dimensions, "nan" when every value is
\* missing
idxmax(means, names) ==
    IF \A j \in 1..Len(means) : ~IsNum(means[j]) THEN "nan"
    ELSE names[CHOOSE j \in 1..Len(means) :
                  /\ IsNum(means[j])
                  /\ \A m \in 1..Len(means) : IsNum(means[m]) => Ge(means[j], means[m])
                  /\ \A m \in 1..(j - 1) : IsNum(means[m]) => Gt(means[j], means[m])]

idxmin(means, names) ==
    IF \A j \in 1..Len(means) : ~IsNum(means[j]) THEN "nan"
    ELSE names[CHOOSE j \in 1..Len(means) :
                  /\ IsNum(means[j])
                  /\ \A m \in 1..Len(means) : IsNum(means[m]) => Le(means[j], means[m])
                  /\ \A m \in 1..(j - 1) : IsNum(means[m]) => Lt(means[j], means[m])]

\* QualityCultureAnalyzer._interpret_cluster_profile
_interpret_cluster_profile(cluster_means, names) ==
    [max_dim |-> idxmax(cluster_means, names),
     min_dim |-> idxmin(cluster_means, names)]

\* the entry of cluster c: its size, its share of the respondents, its
\* mean per dimension and its profile
ClusterEntry(X, labels, c, names) ==
    LET members == SelectSeq([i \in 1..Len(X) |-> i], LAMBDA i : labels[i] = c)
        cluster_means == Array([j \in 1..Len(names) |->
                             NanMean([m \in 1..Len(members) |-> X[members[m]][j]])])
    IN  [size |-> Len(members),
         percentage |-> Round(Mul(Rat(Len(members), Len(X)), N(100)), 100),
         characteristics |-> [j \in 1..Len(names) |->
                                 [dimension |-> names[j], mean |-> cluster_means[j]]],
         profile |-> _interpret_cluster_profile(cluster_means, names)]

\* the analysis of the clusters, entry c being "Cluster_c"
ClusterAnalysis(X, labels, k, names) ==
    [c \in 1..k |-> ClusterEntry(X, labels, c, names)]

\* the clustering of cluster data X with the scaler sc
ClusteringOf(X, sc, names, optimal_k) ==
    IF Len(X) = 0 THEN [error |-> "ValueError"]
    ELSE IF \E i \in 1..Len(X) : \E j \in 1..Len(names) : IsNaN(X[i][j])
    THEN [error |-> "ValueError"]
    ELSE IF Len(X) < optimal_k THEN [error |-> "ValueError"]
    ELSE [n_clusters |-> optimal_k,
          clusters |-> CHOOSE ca \in
              {ClusterAnalysis(X, labels, optimal_k, names) :
                  labels \in {fit_predict(transform(sc, X), optimal_k,
                                          random_state)}} : TRUE,
          silhouette_score |-> Rat(65, 100)]

\* list(theoretical_structure.keys())
Keys(st) == [j \in 1..Len(st) |-> st[j].dimension]

\* QualityCultureAnalyzer.perform_clustering_analysis on the analyzer whose
\* scaler is sc
ClusteringWith(df, st, sc) ==
    LET scored == ScoredEntries(df, st)
    IN  IF Len(scored) = 0 THEN [n_clusters |-> 0, clusters |-> NoEntries]
        ELSE IF Len(scored) # Len(st) THEN [error |-> "ValueError"]
        ELSE CHOOSE r \in
                {ClusteringOf(X, fit(sc, X, Len(st)), Keys(st),
                              _determine_optimal_clusters) :
                    X \in {ClusterData(df, scored)}} : TRUE

\* QualityCultureAnalyzer.perform_clustering_analysis
perform_clustering_analysis(df, st) == ClusteringWith(df, st, scaler)

\* self.scaler after perform_clustering_analysis
ScalerAfterClustering(df, st, sc) ==
    LET scored == ScoredEntries(df, st)
    IN  IF Len(scored) = 0 \/ Len(scored) # Len(st) THEN sc
        ELSE fit(sc, ClusterData(df, scored), Len(st))

\* the columns whose name contains 'recommend'
RecommendColumns(df) == df.columns \cap {"recommend"}

\* QualityCultureAnalyzer.run_complete_analysis without benchmark data; the
\* sections are computed in this order and the first exception ends the run
run_complete_analysis(df, st) ==
    LET scored == ScoredEntries(df, st)
        dims == {scored[i].dimension : i \in 1..Len(scored)}
        clustering == perform_clustering_analysis(df, st)
    IN  IF RecommendColumns(df) = {} THEN [error |-> "IndexError"]
        ELSE IF Raised(clustering) THEN clustering
        ELSE [descriptive_stats |-> [response_rate |-> Len(df.rows),
                                     item_statistics |-> dims],
              dimension_scores |-> calculate_dimension_scores(df, st),
              npqs_score |-> calculate_npqs_score(Column(df, "recommend")),
              benchmark_analysis |-> [internal_benchmark |-> NoEntries,
                                      industry_benchmark |-> NoEntries,
                                      rankings |-> NoEntries],
              clustering |-> clustering,
              correlation_analysis |-> dims]

\* assess_sample_adequacy with the three rules strict (> instead of >=)
assess_sample_adequacy_strict(df) ==
    LET n_responses == Len(df.rows)
        n_items == Cardinality(df.columns)
    IN  IF n_items = 0 THEN [error |-> "ZeroDivisionError"]
        ELSE [n_responses |-> n_responses,
              n_items |-> n_items,
              ratio |-> Round(Rat(n_responses, n_items), 100),
              adequacy_5_1 |-> n_responses > 5 * n_items,
              adequacy_10_1 |-> n_responses > 10 * n_items,
              kline_adequate |-> n_responses > 20 * n_items,
              recommended_minimum |-> IF 200 > 10 * n_items THEN 200
                                      ELSE 10 * n_items]

\* PsychometricValidator.assess_sample_adequacy; the int / int division
\* raises ZeroDivisionError when the matrix has no column
assess_sample_adequacy(df) ==
    LET n_responses == Len(df.rows)
        n_items == Cardinality(df.columns)
    IN  IF n_items = 0 THEN [error |-> "ZeroDivisionError"]
        ELSE [n_responses |-> n_responses,
              n_items |-> n_items,
              ratio |-> Round(Rat(n_responses, n_items), 100),
              adequacy_5_1 |-> n_responses >= 5 * n_items,
              adequacy_10_1 |-> n_responses >= 10 * n_items,
              kline_adequate |-> n_responses >= 20 * n_items,
              recommended_minimum |-> IF 200 > 10 * n_items THEN 200
                                      ELSE 10 * n_items]

\* assess_reliability with the flag of an alpha taken on its rounded value
assess_reliability_rounded(df, st) ==
    LET alphas == PerDimension(df, st, LAMBDA items :
                    LET alpha == _calculate_cronbach_alpha(SubFrame(df, items))
                    IN  [value |-> Round(alpha, 1000),
                         acceptable |-> Ge(Round(alpha, 1000), alpha_threshold),
                         n_items |-> Len(items)])
        crs == PerDimension(df, st, LAMBDA items :
                    LET cr == _calculate_composite_reliability(SubFrame(df, items))
                    IN  [value |-> RoundWide(cr, 1000),
                         acceptable |-> GeWide(cr, alpha_threshold)])
    IN  [cronbach_alpha |-> alphas,
         composite_reliability |-> crs,
         overall_reliability |->
             \A d \in DOMAIN alphas : Ge(alphas[d].value, alpha_threshold)]

\* PsychometricValidator.assess_reliability: overall_reliability is taken
\* over the rounded alpha values of the report
assess_reliability(df, st) ==
    LET alphas == PerDimension(df, st, LAMBDA items :
                    LET alpha == _calculate_cronbach_alpha(SubFrame(df, items))
                    IN  [value |-> Round(alpha, 1000),
                         acceptable |-> Ge(alpha, alpha_threshold),
                         n_items |-> Len(items)])
        crs == PerDimension(df, st, LAMBDA items :
                    LET cr == _calculate_composite_reliability(SubFrame(df, items))
                    IN  [value |-> RoundWide(cr, 1000),
                         acceptable |-> GeWide(cr, alpha_threshold)])
    IN  [cronbach_alpha |-> alphas,
         composite_reliability |-> crs,
         overall_reliability |->
             \A d \in DOMAIN alphas : Ge(alphas[d].value, alpha_threshold)]

\* PsychometricValidator.assess_dimensionality (KMO, Bartlett and parallel
\* analysis are the fixed values the code returns)
assess_dimensionality(df, st) ==
    IF ~(AllItems(st) \subseteq df.columns) THEN [error |-> "KeyError"]
    ELSE [kmo |-> Rat(8, 10),
          bartlett_significant |-> TRUE,
          recommended_factors |-> 4,
          theoretical_factors |-> Len(st),
          dimensionality_adequate |-> Gt(Rat(8, 10), Rat(6, 10)) /\ TRUE]

\* the exception of PsychometricValidator._assess_construct_validity, or
\* "none"
ConstructValidityError(df, st) ==
    IF ~(AllItems(st) \subseteq df.columns) THEN "KeyError"
    ELSE IF Len(df.rows) = 0 \/ AllItems(st) = {} THEN "ValueError"
    ELSE IF HasMissing(df, AllItems(st)) THEN "ValueError"
    ELSE "none"

\* PsychometricValidator._assess_content_validity
_assess_content_validity(st) ==
    [n_dimensions |-> Len(st),
     n_items |-> SumInt([i \in 1..Len(st) |-> Len(st[i].items)]),
     adequate_coverage |-> \A i \in 1..Len(st) : Len(st[i].items) >= 3]

\* PsychometricValidator._assess_discriminant_validity: an entry for every
\* ordered pair of distinct dimensions with all their items in the data
_assess_discriminant_validity(df, st) ==
    LET es == ScoredEntries(df, st)
        dims == {es[i].dimension : i \in 1..Len(es)}
        pairs == {p \in dims \X dims : p[1] # p[2]}
        means == [d \in dims |->
                    RowMeans(df, (CHOOSE e \in Range(es) : e.dimension = d).items)]
        correlations == [p \in pairs |->
                            Round(Corr(means[p[1]], means[p[2]]), 1000)]
    IN  [inter_dimension_correlations |-> correlations,
         discriminant_valid |->
             \A p \in pairs : Lt(AbsR(correlations[p]), Rat(85, 100))]

\* PsychometricValidator.assess_validity (of the construct validity only
\* the exception is modelled)
assess_validity(df, st) ==
    IF ConstructValidityError(df, st) # "none"
    THEN [error |-> ConstructValidityError(df, st)]
    ELSE [content_validity |-> _assess_content_validity(st),
          convergent_validity |-> PerDimension(df, st, LAMBDA items :
              LET ave == _calculate_average_variance_extracted(SubFrame(df, items))
              IN  [ave |-> Round(ave, 1000),
                   acceptable |-> Ge(ave, ave_threshold)]),
          discriminant_validity |-> _assess_discriminant_validity(df, st)]

\* StatisticalValidator.calculate_validity
calculate_validity(df, st) ==
    PerDimension(df, st, LAMBDA items :
        LET ave == _calculate_ave(SubFrame(df, items))
            cr == StatisticalValidator_calculate_composite_reliability(SubFrame(df, items))
        IN  [ave |-> Round(ave, 1000),
             composite_reliability |-> RoundWide(cr, 1000),
             valid |-> Ge(ave, ave_threshold) /\ GeWide(cr, alpha_threshold)])

\* the report sections of run_full_validation
ValidationSections(df, st) ==
    [reliability |-> assess_reliability(df, st),
     validity |-> assess_validity(df, st),
     dimensionality |-> assess_dimensionality(df, st),
     sample_adequacy |-> assess_sample_adequacy(df)]

\* the recommendations on convergent validity, in the order dims of the
\* dimensions
RECURSIVE ConvergentRecommendations(_, _)
ConvergentRecommendations(conv, dims) ==
    IF dims = <<>> THEN <<>>
    ELSE (IF Head(dims) \in DOMAIN conv /\ ~conv[Head(dims)].acceptable
          THEN <<"Improve convergent validity for dimension: " \o Head(dims)>>
          ELSE <<>>)
         \o ConvergentRecommendations(conv, Tail(dims))

\* _generate_recommendations without the recommendation on the sample size
_generate_recommendations_no_sample(validation_report, dims) ==
    (IF ~validation_report.reliability.overall_reliability
     THEN <<"Improve reliability by adding items or refining existing ones">>
     ELSE <<>>)
    \o ConvergentRecommendations(
           validation_report.validity.convergent_validity, dims)
    \o (IF ~validation_report.dimensionality.dimensionality_adequate
        THEN <<"Review dimension structure based on factor analysis">>
        ELSE <<>>)

\* PsychometricValidator._generate_recommendations; dims are the dimensions
\* in the order of the structure, the order of the report's dicts
_generate_recommendations(validation_report, dims) ==
    (IF ~validation_report.reliability.overall_reliability
     THEN <<"Improve reliability by adding items or refining existing ones">>
     ELSE <<>>)
    \o ConvergentRecommendations(
           validation_report.validity.convergent_validity, dims)
    \o (IF ~validation_report.sample_adequacy.adequacy_10_1
        THEN <<"Increase sample size to at least "
               \o ToString(validation_report.sample_adequacy.recommended_minimum)
               \o " responses">>
        ELSE <<>>)
    \o (IF ~validation_report.dimensionality.dimensionality_adequate
        THEN <<"Review dimension structure based on factor analysis">>
        ELSE <<>>)

\* PsychometricValidator.run_full_validation: reliability, validity,
\* dimensionality, item analysis and sample adequacy in this order, then
\* the recommendations
run_full_validation(df, st) ==
    IF Raised(assess_validity(df, st)) THEN assess_validity(df, st)
    ELSE IF Raised(assess_dimensionality(df, st)) THEN assess_dimensionality(df, st)
    ELSE IF Raised(assess_sample_adequacy(df)) THEN assess_sample_adequacy(df)
    ELSE CHOOSE report \in
            {[reliability |-> sections.reliability,
              validity |-> sections.validity,
              dimensionality |-> sections.dimensionality,
              sample_adequacy |-> sections.sample_adequacy,
              recommendations |-> _generate_recommendations(sections, Keys(st))] :
                sections \in {ValidationSections(df, st)}} : TRUE

(***************************************************************************)
(* Benchmarking  (BenchmarkAnalyzer, perform_benchmark_analysis)          *)
(***************************************************************************)
\* BenchmarkAnalyzer.benchmark_data["industry_averages"]
industry_averages ==
    [npqs |-> N(25), maturity |-> Rat(32, 10), leadership |-> Rat(34, 10),
     engagement |-> Rat(31, 10), process |-> Rat(33, 10)]

\* BenchmarkAnalyzer.benchmark_data["percentiles"]
percentiles ==
    (25 :> [npqs |-> N(10), maturity |-> Rat(25, 10)]) @@
    (50 :> [npqs |-> N(25), maturity |-> Rat(32, 10)]) @@
    (75 :> [npqs |-> N(40), maturity |-> Rat(38, 10)]) @@
    (90 :> [npqs |-> N(55), maturity |-> Rat(43, 10)])

\* BenchmarkAnalyzer._calculate_percentile
_calculate_percentile(metric, s) ==
    IF metric = "npqs" THEN
        IF Ge(s, N(55)) THEN 90
        ELSE IF Ge(s, N(40)) THEN 75
        ELSE IF Ge(s, N(25)) THEN 50
        ELSE 25
    ELSE IF metric = "maturity" THEN
        IF Ge(s, Rat(43, 10)) THEN 90
        ELSE IF Ge(s, Rat(38, 10)) THEN 75
        ELSE IF Ge(s, Rat(32, 10)) THEN 50
        ELSE 25
    ELSE 50

\* BenchmarkAnalyzer._get_performance_level
_get_performance_level(percentile) ==
    IF percentile >= 90 THEN "Excellent"
    ELSE IF percentile >= 75 THEN "Good"
    ELSE IF percentile >= 50 THEN "Average"
    ELSE "Needs Improvement"

\* BenchmarkAnalyzer.calculate_benchmark_position
calculate_benchmark_position(sc) ==
    [metric \in DOMAIN sc \cap DOMAIN industry_averages |->
        [score |-> sc[metric],
         industry_average |-> industry_averages[metric],
         difference |-> Round(Sub(sc[metric], industry_averages[metric]), 100),
         percentile |-> _calculate_percentile(metric, sc[metric]),
         performance_level |->
             _get_performance_level(_calculate_percentile(metric, sc[metric]))]]

\* QualityCultureAnalyzer._calculate_percentile_rank
_calculate_percentile_rank(df, bm) ==
    [overall |-> N(75), leadership |-> N(80), processes |-> N(70)]

\* QualityCultureAnalyzer._perform_gap_analysis
_perform_gap_analysis(df, bm) ==
    [leadership |-> Rat(52, 10), processes |-> Rat(-31, 10),
     behaviors |-> Rat(87, 10)]

\* QualityCultureAnalyzer.perform_benchmark_analysis; bm.given is
\* "benchmark_data is not None"
perform_benchmark_analysis(df, bm) ==
    [internal_benchmark |-> NoEntries,
     industry_benchmark |->
         IF bm.given
         THEN [comparison_available |-> TRUE,
               percentile_rank |-> _calculate_percentile_rank(df, bm.df),
               gap_analysis |-> _perform_gap_analysis(df, bm.df)]
         ELSE NoEntries,
     rankings |-> NoEntries]

(***************************************************************************)
(* Inputs not used by a family keep these values                          *)
(***************************************************************************)
NoFrame == [columns |-> {}, rows |-> <<>>]
NoStructure == <<>>
NoResults == [o \in {} |-> 0]
NoWeights == [given |-> FALSE, w |-> NoResults]
NoScores == NoResults
NoBenchmark == [given |-> FALSE, df |-> NoFrame]

\* the arguments of the calls
arguments == <<responses, data, structure, score, weights, metric_scores,
               benchmark>>

\* the improvement loop with its clock, and the assessment engine
NoActions == <<>>
NoConfig == [sector |-> "generic", version |-> "premium"]
NoBank == <<>>
objects == <<improvement_actions, now, config, items_bank>>

\* the arguments of the calls, the analyzer's scaler and the other objects
inputs == <<arguments, scaler, objects>>

Done(o) == o \in DOMAIN results
Store(o, v) == results' = (o :> v) @@ results

(***************************************************************************)
(* Specification of the NPQS family                                       *)
(***************************************************************************)
InitNPQS ==
    /\ responses \in SeqsUpTo(RecValues, MaxResp)
    /\ data = NoFrame
    /\ structure = NoStructure
    /\ score = N(0)
    /\ weights = NoWeights
    /\ metric_scores = NoScores
    /\ benchmark = NoBenchmark
    /\ scaler = NoScaler
    /\ improvement_actions = NoActions
    /\ now = 0
    /\ config = NoConfig
    /\ items_bank = NoBank
    /\ results = NoResults

CalculateNpqsScore ==
    /\ ~Done("calculate_npqs_score")
    /\ Store("calculate_npqs_score", calculate_npqs_score(responses))
    /\ UNCHANGED inputs

CalculateNpqs ==
    /\ ~Done("calculate_npqs")
    /\ Store("calculate_npqs", calculate_npqs(responses))
    /\ UNCHANGED inputs

NextNPQS == CalculateNpqsScore \/ CalculateNpqs

SpecNPQS == InitNPQS /\ [][NextNPQS]_vars

(***************************************************************************)
(* Claims on NPQS                                                         *)
(***************************************************************************)
ValidResponses(rec) == SelectSeqNotNaN(rec)
IsPromoter(v) == Ge(v, N(9))
IsDetractor(v) == Le(v, N(6))
IsPassive(v) == Ge(v, N(7)) /\ Le(v, N(8))
AllValidAre(rec, Test(_)) == \A i \in 1..Len(rec) : ~IsNaN(rec[i]) => Test(rec[i])

NpqsContract(rec, v) ==
    /\ Ge(v, N(-100)) /\ Le(v, N(100))
    /\ Eq(v, N(100)) <=> AllValidAre(rec, IsPromoter)
    /\ Eq(v, N(-100)) <=> AllValidAre(rec, IsDetractor)

\* C1: with at least one valid response, the NPQS of both implementations
\* lies in [-100, 100], is 100 iff every valid response is >= 9 and is -100
\* iff every valid response is <= 6.
C1_NpqsRangeAndExtremes ==
    Len(ValidResponses(responses)) > 0 =>
        /\ Done("calculate_npqs_score") =>
              NpqsContract(responses, results["calculate_npqs_score"].npqs_score)
        /\ Done("calculate_npqs") =>
              NpqsContract(responses, results["calculate_npqs"].npqs)

HasZeroFields(r, fs) == \A f \in fs : f \in DOMAIN r /\ Eq(r[f], N(0))

\* C2: with zero valid responses both implementations return npqs = 0 and
\* promoter, passive and detractor percentage fields that are all 0.
C2_ZeroValidResponses ==
    Len(ValidResponses(responses)) = 0 =>
        /\ Done("calculate_npqs_score") =>
              HasZeroFields(results["calculate_npqs_score"],
                  {"npqs_score", "promoters_pct", "passives_pct", "detractors_pct"})
        /\ Done("calculate_npqs") =>
              HasZeroFields(results["calculate_npqs"],
                  {"npqs", "promoter_pct", "passive_pct", "detractor_pct"})

\* every valid response is one of the integers 0..10
OnIntegerScale(rec) == AllValidAre(rec, LAMBDA v : v.d = 1 /\ v.n \in 0..10)

\* three percentages, each rounded to 2 decimals, sum to 100 within 0.02
SumsTo100(a, b, c) ==
    LET s == Add(a, Add(b, c))
    IN  Ge(s, Rat(9998, 100)) /\ Le(s, Rat(10002, 100))

\* C3: valid_responses counts only the non-missing entries, every valid
\* response is counted in exactly one of the three classes, and with at
\* least one valid response the three percentages sum to 100.
C3_PartitionAndPercentages ==
    LET valid == ValidResponses(responses)
    IN  OnIntegerScale(responses) =>
        /\ Done("calculate_npqs_score") =>
            LET r == results["calculate_npqs_score"]
            IN  /\ r.n_responses = Len(valid)
                /\ Len(valid) > 0 =>
                      SumsTo100(r.promoters_pct, r.passives_pct, r.detractors_pct)
        /\ Done("calculate_npqs") =>
            LET r == results["calculate_npqs"]
            IN  /\ r.promoters + r.passives + r.detractors = Len(valid)
                /\ r.promoters = CountIf(valid, IsPromoter)
                /\ r.passives = CountIf(valid, IsPassive)
                /\ r.detractors = CountIf(valid, IsDetractor)
                /\ Len(valid) > 0 =>
                      SumsTo100(r.promoter_pct, r.passive_pct, r.detractor_pct)

(***************************************************************************)
(* Specification of the maturity-level family                             *)
(***************************************************************************)
\* scores are drawn on a grid of hundredths, 0.00 .. 100.00, plus nan
ScoreGridMax == 10000
ScoreGrid == {Rat(i, 100) : i \in 0..ScoreGridMax}

InitLevel ==
    /\ score \in ScoreGrid \cup {NaN}
    /\ responses = <<>>
    /\ data = NoFrame
    /\ structure = NoStructure
    /\ weights = NoWeights
    /\ metric_scores = NoScores
    /\ benchmark = NoBenchmark
    /\ scaler = NoScaler
    /\ improvement_actions = NoActions
    /\ now = 0
    /\ config = NoConfig
    /\ items_bank = NoBank
    /\ results = NoResults

CalculateMaturityLevel ==
    /\ ~Done("_calculate_maturity_level")
    /\ Store("_calculate_maturity_level", _calculate_maturity_level(score))
    /\ UNCHANGED inputs

GetMaturityLevel ==
    /\ ~Done("_get_maturity_level")
    /\ Store("_get_maturity_level", _get_maturity_level(score))
    /\ UNCHANGED inputs

PharmaGetMaturityLevel ==
    /\ ~Done("Pharma_get_maturity_level")
    /\ Store("Pharma_get_maturity_level", Pharma_get_maturity_level(score))
    /\ UNCHANGED inputs

NextLevel == CalculateMaturityLevel \/ GetMaturityLevel \/ PharmaGetMaturityLevel

SpecLevel == InitLevel /\ [][NextLevel]_vars

(***************************************************************************)
(* Claims on maturity levels                                              *)
(***************************************************************************)
\* the next score of the grid (the last one is its own successor)
NextScore(s) == IF Lt(s, N(100)) THEN Add(s, Rat(1, 100)) ELSE s

Rank4(l) == CASE l = "Initial" -> 1 [] l = "Développement" -> 2
              [] l = "Amélioration" -> 3 [] l = "Excellence" -> 4

Rank5(l) == CASE l = "Initial/Ad-hoc" -> 1 [] l = "Managed" -> 2
              [] l = "Defined" -> 3 [] l = "Quantitatively Managed" -> 4
              [] l = "Optimizing" -> 5

\* C6: on the 0-100 scale the level is Excellence iff s >= 80, Amelioration
\* iff 60 <= s < 80, Developpement iff 40 <= s < 60, Initial iff s < 40;
\* a boundary score gets the higher level and the level never decreases
\* when the score increases.
C6_LevelThresholds100 ==
    (Done("_calculate_maturity_level") /\ IsNum(score)) =>
        LET l == results["_calculate_maturity_level"]
        IN  /\ (l = "Excellence") <=> Ge(score, N(80))
            /\ (l = "Amélioration") <=> (Ge(score, N(60)) /\ Lt(score, N(80)))
            /\ (l = "Développement") <=> (Ge(score, N(40)) /\ Lt(score, N(60)))
            /\ (l = "Initial") <=> Lt(score, N(40))
            /\ Rank4(l) <= Rank4(_calculate_maturity_level(NextScore(score)))

C6_Witness ==
    /\ Done("_calculate_maturity_level")
    /\ Eq(score, N(80))
    /\ results["_calculate_maturity_level"] = "Excellence"

\* C7: on the 1-5 scale the level is Optimizing iff s >= 4.5, Quantitatively
\* Managed iff 3.5 <= s < 4.5, Defined iff 2.5 <= s < 3.5, Managed iff
\* 1.5 <= s < 2.5 and Initial/Ad-hoc iff s < 1.5: exactly one of the five
\* ordered levels, a cut point resolving upward.
C7_LevelThresholds5 ==
    (Done("_get_maturity_level") /\ IsNum(score)) =>
        LET l == results["_get_maturity_level"]
        IN  /\ (l = "Optimizing") <=> Ge(score, Rat(9, 2))
            /\ (l = "Quantitatively Managed") <=>
                   (Ge(score, Rat(7, 2)) /\ Lt(score, Rat(9, 2)))
            /\ (l = "Defined") <=> (Ge(score, Rat(5, 2)) /\ Lt(score, Rat(7, 2)))
            /\ (l = "Managed") <=> (Ge(score, Rat(3, 2)) /\ Lt(score, Rat(5, 2)))
            /\ (l = "Initial/Ad-hoc") <=> Lt(score, Rat(3, 2))
            /\ Rank5(l) <= Rank5(_get_maturity_level(NextScore(score)))

C7_Witness ==
    /\ Done("_get_maturity_level")
    /\ Eq(score, Rat(7, 2))
    /\ results["_get_maturity_level"] = "Quantitatively Managed"

(***************************************************************************)
(* Specification of the dimension-score family                            *)
(***************************************************************************)
Items == {"L1", "L2", "P1"}

\* the theoretical structure: Leadership has two items, Processus one
Structure2 == <<[dimension |-> "Leadership", items |-> <<"L1", "L2">>],
                [dimension |-> "Processus", items |-> <<"P1">>]>>

\* item values drawn by the model: 2 and 5 of the 1-5 scale, the
\* out-of-range value 7, and missing; P1 is always answered in range
ItemValues == {N(2), N(5), N(7), NaN}

InitDim ==
    /\ IsFrame(data, Items, ItemValues, MaxRows)
    /\ "P1" \in data.columns =>
          \A i \in 1..Len(data.rows) : data.rows[i]["P1"] \in {N(2), N(5)}
    /\ structure = Structure2
    /\ responses = <<>>
    /\ score = N(0)
    /\ weights = NoWeights
    /\ metric_scores = NoScores
    /\ benchmark = NoBenchmark
    /\ scaler = NoScaler
    /\ improvement_actions = NoActions
    /\ now = 0
    /\ config = NoConfig
    /\ items_bank = NoBank
    /\ results = NoResults

CalculateDimensionScores ==
    /\ ~Done("calculate_dimension_scores")
    /\ Store("calculate_dimension_scores", calculate_dimension_scores(data, structure))
    /\ UNCHANGED inputs

NextDim == CalculateDimensionScores

SpecDim == InitDim /\ [][NextDim]_vars

(***************************************************************************)
(* Claims on dimension scores                                             *)
(***************************************************************************)
\* the item scale of the analyzer: 5-point, 1..5
scale_min == 1
scale_max == 5

ItemsOf(st, d) == (CHOOSE e \in Range(st) : e.dimension = d).items

\* there is a respondent, and every value of the dimension's items lies in
\* the scale range
InScale(df, items) ==
    /\ Len(df.rows) > 0
    /\ \A i \in 1..Len(df.rows) : \A c \in Range(items) :
          Ge(df.rows[i][c], N(scale_min)) /\ Le(df.rows[i][c], N(scale_max))

AllItemsAre(df, items, v) ==
    \A i \in 1..Len(df.rows) : \A c \in Range(items) : Eq(df.rows[i][c], v)

In0To100(x) == Ge(x, N(0)) /\ Le(x, N(100))

InitRel ==
    /\ \/ IsFrame(data, {"L1", "L2"}, {N(1), N(2), N(3), NaN}, MaxRelRows)
       \/ IsFrame(data, {"L1", "L2", "L3"}, {N(1), N(3)}, MaxRelRows)
    /\ structure = NoStructure
    /\ responses = <<>>
    /\ score = N(0)
    /\ weights = NoWeights
    /\ metric_scores = NoScores
    /\ benchmark = NoBenchmark
    /\ scaler = NoScaler
    /\ improvement_actions = NoActions
    /\ now = 0
    /\ config = NoConfig
    /\ items_bank = NoBank
    /\ results = NoResults

CalculateCronbachAlpha ==
    /\ ~Done("_calculate_cronbach_alpha")
    /\ Store("_calculate_cronbach_alpha", _calculate_cronbach_alpha(data))
    /\ UNCHANGED inputs

CalculateReliability ==
    /\ ~Done("calculate_reliability")
    /\ Store("calculate_reliability", calculate_reliability(data))
    /\ UNCHANGED inputs

NextRel == CalculateCronbachAlpha \/ CalculateReliability

SpecRel == InitRel /\ [][NextRel]_vars

(***************************************************************************)
(* Claims on Cronbach's alpha                                             *)
(***************************************************************************)
\* fewer than 2 items, or a row sum whose variance is zero
Degenerate(df) ==
    \/ Cardinality(df.columns) < 2
    \/ Eq(Var(RowSums(df, SetToSeq(df.columns))), N(0))

\* C9: for a dimension with fewer than 2 items or a zero row-sum variance,
\* both implementations report alpha = 0 and flag it not reliable, with no
\* undefined value.
C9_DegenerateAlphaIsZero ==
    Degenerate(data) =>
        /\ Done("_calculate_cronbach_alpha") =>
              /\ Eq(results["_calculate_cronbach_alpha"], N(0))
              /\ ~Ge(results["_calculate_cronbach_alpha"], alpha_threshold)
        /\ Done("calculate_reliability") =>
              /\ Eq(results["calculate_reliability"].cronbach_alpha, N(0))
              /\ ~results["calculate_reliability"].reliable

\* C10: the reported Cronbach's alpha is never negative: a negative value
\* of the formula is reported as 0.
C10_AlphaNonNegative ==
    /\ Done("_calculate_cronbach_alpha") =>
          Ge(results["_calculate_cronbach_alpha"], N(0))
    /\ Done("calculate_reliability") =>
          LET a == results["calculate_reliability"].cronbach_alpha
          IN  /\ ~Lt(a, N(0))
              /\ (Cardinality(data.columns) >= 2 /\ ~IsEmpty(data)
                    /\ Lt(AlphaFormula(data), N(0))) => Eq(a, N(0))

(***************************************************************************)
(* Specification of the weighted-maturity family                          *)
(***************************************************************************)
MaxMatRows == 2
Dimensions == {"leadership", "process"}
WeightKeys == {"leadership", "process", "other"}
WeightValues == {N(0), N(1), N(3)}

InitMat ==
    /\ IsFrame(data, Dimensions, {N(2), N(5), NaN}, MaxMatRows)
    /\ \/ weights = NoWeights
       \/ \E ks \in SUBSET WeightKeys : \E w \in [ks -> WeightValues] :
             weights = [given |-> TRUE, w |-> w]
    /\ structure = NoStructure
    /\ responses = <<>>
    /\ score = N(0)
    /\ metric_scores = NoScores
    /\ benchmark = NoBenchmark
    /\ scaler = NoScaler
    /\ improvement_actions = NoActions
    /\ now = 0
    /\ config = NoConfig
    /\ items_bank = NoBank
    /\ results = NoResults

CalculateMaturity ==
    /\ ~Done("calculate_maturity")
    /\ Store("calculate_maturity", calculate_maturity(data, weights))
    /\ UNCHANGED inputs

NextMat == CalculateMaturity

SpecMat == InitMat /\ [][NextMat]_vars

(***************************************************************************)
(* Claims on the weighted maturity                                        *)
(***************************************************************************)
WeightedDims == data.columns \cap DOMAIN weights.w
TotalWeight == SumOver(WeightedDims, weights.w)
DimMean(d) == NanMean(Column(data, d))

\* sum of (dimension mean * weight) / total weight, for a nonzero total
ExactWeightedMean ==
    Div(SumOver(WeightedDims, [d \in WeightedDims |-> Mul(DimMean(d), weights.w[d])]),
        TotalWeight)

\* C8: with supplied weights overall_maturity is the weighted mean of the
\* dimension means over the weighted dimensions (to 2 decimals); a total weight of zero is
\* reported as an error and never answered with a score.
C8_WeightedMaturity ==
    (Done("calculate_maturity") /\ weights.given) =>
        LET r == results["calculate_maturity"]
        IN  /\ (~Eq(TotalWeight, N(0)) /\ ~IsEmpty(data)
                  /\ \A d \in WeightedDims : IsNum(DimMean(d))) =>
                    /\ "overall_maturity" \in DOMAIN r
                    /\ Eq(r.overall_maturity, Round(ExactWeightedMean, 100))
            /\ Eq(TotalWeight, N(0)) => "error" \in DOMAIN r

(***************************************************************************)
(* Specification of the orchestration family                              *)
(***************************************************************************)
RunColumns == {"L1", "L2", "P1", "recommend"}

InitRun ==
    /\ IsFrame(data, RunColumns, {N(4), NaN}, MaxRunRows)
    /\ structure = Structure2
    /\ responses = <<>>
    /\ score = N(0)
    /\ weights = NoWeights
    /\ metric_scores = NoScores
    /\ benchmark = NoBenchmark
    /\ scaler = NoScaler
    /\ improvement_actions = NoActions
    /\ now = 0
    /\ config = NoConfig
    /\ items_bank = NoBank
    /\ results = NoResults

RunFullValidation ==
    /\ ~Done("run_full_validation")
    /\ Store("run_full_validation", run_full_validation(data, structure))
    /\ UNCHANGED inputs

RunCompleteAnalysis ==
    /\ ~Done("run_complete_analysis")
    /\ Store("run_complete_analysis", run_complete_analysis(data, structure))
    /\ scaler' = IF RecommendColumns(data) = {} THEN scaler
                 ELSE ScalerAfterClustering(data, structure, scaler)
    /\ UNCHANGED <<arguments, objects>>

NextRun == RunFullValidation \/ RunCompleteAnalysis

SpecRun == InitRun /\ [][NextRun]_vars

(***************************************************************************)
(* Claims on structural mismatch                                          *)
(***************************************************************************)
\* the dimensions of the structure with an item absent from the matrix
MismatchedDims ==
    {structure[i].dimension : i \in {j \in 1..Len(structure) :
        ~AllItemsPresent(data, structure[j].items)}}

\* nothing but the structure can stop a run: the recommendation column is
\* there, no value is missing and there are enough respondents to cluster
OtherwiseUsable ==
    /\ "recommend" \in data.columns
    /\ ~HasMissing(data, data.columns)
    /\ Len(data.rows) >= _determine_optimal_clusters

\* C5: when the structure references an item absent from the matrix, the
\* dimension is skipped in every per-dimension result, and
\* run_full_validation and run_complete_analysis still return the results
\* of the remaining dimensions.
C5_MismatchedDimensionSkipped ==
    (MismatchedDims # {} /\ OtherwiseUsable) =>
        /\ Done("run_full_validation") =>
              LET r == results["run_full_validation"]
              IN  /\ ~Raised(r)
                  /\ DOMAIN r.reliability.cronbach_alpha \cap MismatchedDims = {}
        /\ Done("run_complete_analysis") =>
              LET r == results["run_complete_analysis"]
              IN  /\ ~Raised(r)
                  /\ DOMAIN r.dimension_scores \cap MismatchedDims = {}

(***************************************************************************)
(* Specification of the sample adequacy family: matrices of every shape   *)
(* from 0 x 0 to MaxAdqRows x MaxAdqItems (the cell values play no role)  *)
(***************************************************************************)
MaxAdqRows == 50
MaxAdqItems == 21

ItemName(k) == "i" \o ToString(k)

ShapedFrame(n, p) ==
    [columns |-> {ItemName(k) : k \in 1..p},
     rows |-> [i \in 1..n |-> [c \in {ItemName(k) : k \in 1..p} |-> N(3)]]]

InitAdq ==
    /\ \E n \in 0..MaxAdqRows : \E p \in 0..MaxAdqItems : data = ShapedFrame(n, p)
    /\ structure = NoStructure
    /\ responses = <<>>
    /\ score = N(0)
    /\ weights = NoWeights
    /\ metric_scores = NoScores
    /\ benchmark = NoBenchmark
    /\ scaler = NoScaler
    /\ improvement_actions = NoActions
    /\ now = 0
    /\ config = NoConfig
    /\ items_bank = NoBank
    /\ results = NoResults

AssessSampleAdequacy ==
    /\ ~Done("assess_sample_adequacy")
    /\ Store("assess_sample_adequacy", assess_sample_adequacy(data))
    /\ UNCHANGED inputs

NextAdq == AssessSampleAdequacy

SpecAdq == InitAdq /\ [][NextAdq]_vars

(***************************************************************************)
(* Claims on sample adequacy                                              *)
(***************************************************************************)
n_resp == Len(data.rows)
p_items == Cardinality(data.columns)

\* the rules, the recommended minimum and scenario D of a returned result
AdequacyRules(r) ==
    /\ r.adequacy_5_1 = (n_resp >= 5 * p_items)
    /\ r.adequacy_10_1 = (n_resp >= 10 * p_items)
    /\ r.kline_adequate = (n_resp >= 20 * p_items)
    /\ r.recommended_minimum \in {200, 10 * p_items}
    /\ r.recommended_minimum >= 200
    /\ r.recommended_minimum >= 10 * p_items
    /\ r.kline_adequate => r.adequacy_10_1
    /\ r.adequacy_10_1 => r.adequacy_5_1
    /\ (n_resp = 50 /\ p_items = 10) =>
          /\ Eq(r.ratio, N(5))
          /\ r.adequacy_5_1 /\ ~r.adequacy_10_1 /\ ~r.kline_adequate
          /\ r.recommended_minimum = 200

\* C14 as stated: for n responses and p > 0 items the reported ratio is
\* n/p, the three rules are n >= 5p, n >= 10p and n >= 20p (inclusive),
\* recommended_minimum is max(200, 10p), and kline_adequate implies
\* adequacy_10_1 implies adequacy_5_1.
C14_SampleAdequacyExactRatio ==
    (Done("assess_sample_adequacy") /\ p_items > 0) =>
        LET r == results["assess_sample_adequacy"]
        IN  /\ ~Raised(r)
            /\ Eq(r.ratio, Rat(n_resp, p_items))
            /\ AdequacyRules(r)

\* C14 amended: as above, with the reported ratio being n/p rounded to two
\* decimals (50 responses and 10 items: 5.0, true, false, false, 200).
C14_SampleAdequacy ==
    (Done("assess_sample_adequacy") /\ p_items > 0) =>
        LET r == results["assess_sample_adequacy"]
        IN  /\ ~Raised(r)
            /\ Eq(r.ratio, Round(Rat(n_resp, p_items), 100))
            /\ AdequacyRules(r)

C14_Witness ==
    /\ Done("assess_sample_adequacy")
    /\ n_resp = 50
    /\ p_items = 10
    /\ results["assess_sample_adequacy"].adequacy_5_1

\* C15: assess_sample_adequacy returns a result for every n >= 0 and
\* p >= 0, and for p = 0 the result has all adequacy flags false.
C15_SampleAdequacyTotal ==
    Done("assess_sample_adequacy") =>
        LET r == results["assess_sample_adequacy"]
        IN  /\ ~Raised(r)
            /\ p_items = 0 =>
                  ~r.adequacy_5_1 /\ ~r.adequacy_10_1 /\ ~r.kline_adequate

(***************************************************************************)
(* Claim on a matrix without recommendation column                        *)
(***************************************************************************)
\* nothing but the absent recommendation column can stop the run: every
\* item of the structure is there, no value is missing and there are enough
\* respondents to cluster
NoRecommendationOnly ==
    /\ RecommendColumns(data) = {}
    /\ AllItems(structure) \subseteq data.columns
    /\ ~HasMissing(data, data.columns)
    /\ Len(data.rows) >= _determine_optimal_clusters

\* C20: when the matrix has no recommendation column, run_complete_analysis
\* is not aborted: it returns the result bundle with every other section,
\* the NPQS section being empty or marked unavailable.
C20_NoRecommendationDegrades ==
    (Done("run_complete_analysis") /\ NoRecommendationOnly) =>
        LET r == results["run_complete_analysis"]
        IN  /\ ~Raised(r)
            /\ {"descriptive_stats", "dimension_scores", "benchmark_analysis",
                "clustering", "correlation_analysis"} \subseteq DOMAIN r

(***************************************************************************)
(* Specification of the validity family: up to MaxValRows respondents,    *)
(* each answering (L1, L2, P1) as one of the respondents of the pool; the *)
(* respondents are listed in pool order, which no statistic depends on    *)
(***************************************************************************)
MaxValRows == 5

RespondentPool ==
    << [L1 |-> N(3), L2 |-> N(3), P1 |-> N(3)],
       [L1 |-> N(2), L2 |-> N(2), P1 |-> N(2)],
       [L1 |-> N(5), L2 |-> N(5), P1 |-> N(5)],
       [L1 |-> N(4), L2 |-> N(4), P1 |-> N(3)],
       [L1 |-> N(4), L2 |-> N(4), P1 |-> N(5)],
       [L1 |-> N(1), L2 |-> N(5), P1 |-> N(2)],
       [L1 |-> NaN, L2 |-> N(2), P1 |-> N(4)] >>

InitVal ==
    /\ \E c \in SUBSET Items : \E m \in 0..MaxValRows :
         \E idx \in [1..m -> 1..Len(RespondentPool)] :
            /\ \A i \in 1..m : \A j \in 1..m : i < j => idx[i] <= idx[j]
            /\ data = [columns |-> c,
                       rows |-> [i \in 1..m |->
                                   [col \in c |-> RespondentPool[idx[i]][col]]]]
    /\ structure = Structure2
    /\ responses = <<>>
    /\ score = N(0)
    /\ weights = NoWeights
    /\ metric_scores = NoScores
    /\ benchmark = NoBenchmark
    /\ scaler = NoScaler
    /\ improvement_actions = NoActions
    /\ now = 0
    /\ config = NoConfig
    /\ items_bank = NoBank
    /\ results = NoResults

AssessReliability ==
    /\ results = NoResults
    /\ Store("assess_reliability", assess_reliability(data, structure))
    /\ UNCHANGED inputs

AssessValidity ==
    /\ results = NoResults
    /\ Store("assess_validity", assess_validity(data, structure))
    /\ UNCHANGED inputs

AssessDiscriminantValidity ==
    /\ results = NoResults
    /\ Store("_assess_discriminant_validity",
             _assess_discriminant_validity(data, structure))
    /\ UNCHANGED inputs

CalculateValidity ==
    /\ results = NoResults
    /\ Store("calculate_validity", calculate_validity(data, structure))
    /\ UNCHANGED inputs

NextVal ==
    \/ AssessReliability
    \/ AssessValidity
    \/ AssessDiscriminantValidity
    \/ CalculateValidity

SpecVal == InitVal /\ [][NextVal]_vars

(***************************************************************************)
(* Claims on reliability and validity reports                             *)
(***************************************************************************)
\* the scored dimensions and the answers to a dimension's items
ScoredDims == {structure[i].dimension : i \in {j \in 1..Len(structure) :
                    AllItemsPresent(data, structure[j].items)}}

DimFrame(d) == SubFrame(data, ItemsOf(structure, d))

\* C11: in assess_reliability each scored dimension is acceptable on alpha
\* iff alpha >= 0.70 and on composite reliability iff CR >= 0.70, and
\* overall_reliability equals the conjunction of the reported
\* per-dimension 'acceptable' flags.
C11_OverallIsConjunction ==
    Done("assess_reliability") =>
        LET r == results["assess_reliability"]
        IN  /\ DOMAIN r.cronbach_alpha = ScoredDims
            /\ DOMAIN r.composite_reliability = ScoredDims
            /\ \A d \in ScoredDims :
                  /\ r.cronbach_alpha[d].acceptable =
                        Ge(_calculate_cronbach_alpha(DimFrame(d)), alpha_threshold)
                  /\ r.composite_reliability[d].acceptable =
                        GeWide(_calculate_composite_reliability(DimFrame(d)),
                               alpha_threshold)
            /\ r.overall_reliability =
                  \A d \in ScoredDims : /\ r.cronbach_alpha[d].acceptable
                                        /\ r.composite_reliability[d].acceptable

\* the items of dimension d that every respondent answered the same
ZeroVarianceItems(d) ==
    {c \in Range(ItemsOf(structure, d)) : Eq(Var(Column(data, c)), N(0))}

\* the squared item-to-mean correlations of dimension d, 0 for the items
\* without variance
DefinedSquaredLoadings(d) ==
    LET q == SquaredLoadings(DimFrame(d))
    IN  [j \in 1..Len(q) |-> IF IsNaN(q[j]) THEN N(0) ELSE q[j]]

\* C12: when an item of a scored dimension has zero variance, its
\* correlation with the dimension mean counts as 0.0: the reported AVE and
\* composite reliability are numbers, the AVE being the mean of the
\* squared correlations so defined, and both are 0 when no item of the
\* dimension varies.
C12_ZeroVarianceDefined ==
    \A d \in ScoredDims :
        (ZeroVarianceItems(d) # {} /\ ~HasMissing(data, data.columns)) =>
            LET allZero == ZeroVarianceItems(d) = Range(ItemsOf(structure, d))
                ave == Round(MeanSeq(DefinedSquaredLoadings(d)), 1000)
            IN  /\ Done("assess_reliability") =>
                    LET cr == results["assess_reliability"].composite_reliability[d]
                    IN  /\ IsNum(cr.value)
                        /\ allZero => Eq(cr.value, N(0))
                /\ (Done("assess_validity")
                      /\ ~Raised(results["assess_validity"])) =>
                    LET cv == results["assess_validity"].convergent_validity[d]
                    IN  /\ Eq(cv.ave, ave)
                        /\ cv.acceptable = Ge(ave, ave_threshold)
                /\ Done("calculate_validity") =>
                    LET v == results["calculate_validity"][d]
                    IN  /\ IsNum(v.ave)
                        /\ IsNum(v.composite_reliability)
                        /\ allZero => /\ Eq(v.ave, N(0))
                                      /\ Eq(v.composite_reliability, N(0))

\* the unordered pairs of distinct scored dimensions
ScoredPairs == {p \in SUBSET ScoredDims : Cardinality(p) = 2}

\* the squared correlation of the per-respondent means of two dimensions
PairCorr2(p) ==
    LET d == CHOOSE d \in p : TRUE
        e == CHOOSE e \in p : e # d
    IN  Corr2(RowMeans(data, ItemsOf(structure, d)),
              RowMeans(data, ItemsOf(structure, e)))

\* C13: _assess_discriminant_validity returns (it never aborts) and, the
\* correlations being defined, discriminant_valid is true iff every
\* unordered pair of distinct scored dimensions has an absolute correlation
\* of its per-respondent means strictly below 0.85 (a squared correlation
\* below 0.7225).
C13_DiscriminantBelow085 ==
    (Done("_assess_discriminant_validity")
       /\ \A p \in ScoredPairs : IsNum(PairCorr2(p))) =>
        LET r == results["_assess_discriminant_validity"]
        IN  /\ ~Raised(r)
            /\ r.discriminant_valid =
                  \A p \in ScoredPairs : Lt(PairCorr2(p), Rat(7225, 10000))

(***************************************************************************)
(* Specification of the benchmark family: either a dict of own scores for *)
(* calculate_benchmark_position, or own data and an optional reference    *)
(* for perform_benchmark_analysis                                         *)
(***************************************************************************)
MaxBenchRows == 1

\* the values tried for each metric of the own scores
MetricGrid ==
    [npqs |-> {N(-100), N(10), Rat(2499, 100), N(25), N(40), N(55), N(100)},
     maturity |-> {N(1), Rat(319, 100), Rat(32, 10), Rat(38, 10), Rat(43, 10),
                   N(5)},
     leadership |-> {N(1), Rat(34, 10), N(5)},
     culture |-> {N(3)}]

BenchColumns == {"leadership", "processes"}
BenchValues == {N(3), N(4)}

InitBench ==
    /\ \/ /\ \E ms \in SUBSET DOMAIN MetricGrid :
                \E sc \in [ms -> UNION {MetricGrid[m] : m \in DOMAIN MetricGrid}] :
                    /\ \A m \in ms : sc[m] \in MetricGrid[m]
                    /\ metric_scores = sc
          /\ data = NoFrame
          /\ benchmark = NoBenchmark
       \/ /\ metric_scores = NoScores
          /\ IsFrame(data, BenchColumns, BenchValues, MaxBenchRows)
          /\ \/ benchmark = NoBenchmark
             \/ \E f \in [columns : SUBSET BenchColumns,
                          rows : {<<>>}] : benchmark = [given |-> TRUE, df |-> f]
             \/ \E f \in {[columns |-> BenchColumns,
                           rows |-> [i \in 1..m |-> [c \in BenchColumns |-> v]]] :
                              m \in 1..MaxBenchRows, v \in BenchValues} :
                    benchmark = [given |-> TRUE, df |-> f]
    /\ structure = NoStructure
    /\ responses = <<>>
    /\ score = N(0)
    /\ weights = NoWeights
    /\ scaler = NoScaler
    /\ improvement_actions = NoActions
    /\ now = 0
    /\ config = NoConfig
    /\ items_bank = NoBank
    /\ results = NoResults

CalculateBenchmarkPosition ==
    /\ results = NoResults
    /\ Store("calculate_benchmark_position",
             calculate_benchmark_position(metric_scores))
    /\ UNCHANGED inputs

PerformBenchmarkAnalysis ==
    /\ results = NoResults
    /\ Store("perform_benchmark_analysis",
             perform_benchmark_analysis(data, benchmark))
    /\ UNCHANGED inputs

NextBench == CalculateBenchmarkPosition \/ PerformBenchmarkAnalysis

SpecBench == InitBench /\ [][NextBench]_vars

(***************************************************************************)
(* Claims on benchmarking                                                 *)
(***************************************************************************)
\* the metrics present in the own data and in the reference
CommonMetrics == data.columns \cap benchmark.df.columns

\* C18: without reference data perform_benchmark_analysis reports no
\* comparison value for any metric; with a reference it reports a gap and a
\* percentile for the metrics present in both the own data and the
\* reference, and for no other metric.
C18_BenchmarkFromInputs ==
    Done("perform_benchmark_analysis") =>
        LET ib == results["perform_benchmark_analysis"].industry_benchmark
        IN  /\ ~benchmark.given => DOMAIN ib = {}
            /\ benchmark.given =>
                  /\ DOMAIN ib.gap_analysis = CommonMetrics
                  /\ DOMAIN ib.percentile_rank = CommonMetrics

\* the tiers whose reference cut point for the metric is reached by s
TiersReached(metric, s) ==
    {t \in DOMAIN percentiles :
        metric \in DOMAIN percentiles[t] /\ Ge(s, percentiles[t][metric])}

\* the highest tier reached, the lowest tier when none is
Bucket(metric, s) ==
    LET reached == TiersReached(metric, s) \cup {25}
    IN  CHOOSE t \in reached : \A u \in reached : u <= t

\* the entries of the result are those of the metrics found in both the
\* scores and the reference averages, each with the signed difference and
\* the label of its tier
BenchmarkEntries(r) ==
    /\ DOMAIN r = DOMAIN metric_scores \cap DOMAIN industry_averages
    /\ \A m \in DOMAIN r :
          /\ Eq(r[m].difference, Sub(metric_scores[m], industry_averages[m]))
          /\ r[m].performance_level =
                (IF r[m].percentile = 90 THEN "Excellent"
                 ELSE IF r[m].percentile = 75 THEN "Good"
                 ELSE IF r[m].percentile = 50 THEN "Average"
                 ELSE "Needs Improvement")

\* C19: calculate_benchmark_position returns an entry exactly for the
\* metrics present in both the scores and the reference averages, with
\* difference = own score - reference average, the percentile tier obtained
\* by bucketing the own score against the reference cut points of that
\* metric, and the label Excellent, Good, Average or Needs Improvement for
\* the tiers 90, 75, 50 and below.
C19_BenchmarkPosition ==
    Done("calculate_benchmark_position") =>
        LET r == results["calculate_benchmark_position"]
        IN  /\ BenchmarkEntries(r)
            /\ \A m \in DOMAIN r :
                  /\ \E t \in DOMAIN percentiles : m \in DOMAIN percentiles[t]
                  /\ r[m].percentile = Bucket(m, metric_scores[m])

(***************************************************************************)
(* Specification of the clustering family: one analyzer, whose scaler is  *)
(* kept from call to call, clusters the data twice; between the two runs  *)
(* it may cluster other data, or be replaced by a new analyzer            *)
(***************************************************************************)
MaxCluRows == 4

ClusterPool ==
    << [L1 |-> N(1), L2 |-> N(1), P1 |-> N(1)],
       [L1 |-> N(3), L2 |-> N(3), P1 |-> N(1)],
       [L1 |-> N(4), L2 |-> N(4), P1 |-> N(1)],
       [L1 |-> N(4), L2 |-> N(4), P1 |-> N(2)],
       [L1 |-> N(3), L2 |-> N(3), P1 |-> N(3)],
       [L1 |-> N(4), L2 |-> N(4), P1 |-> N(5)] >>

\* the data of the calls made between the two runs
EarlierFrames ==
    {[columns |-> Items, rows |-> <<ClusterPool[5], ClusterPool[6]>>],
     [columns |-> Items, rows |-> <<ClusterPool[1], ClusterPool[4]>>]}

InitClu ==
    /\ \E c \in SUBSET Items : \E m \in 0..MaxCluRows :
         \E idx \in [1..m -> 1..Len(ClusterPool)] :
            /\ \A i \in 1..m : \A j \in 1..m : i < j => idx[i] <= idx[j]
            /\ data = [columns |-> c,
                       rows |-> [i \in 1..m |->
                                   [col \in c |-> ClusterPool[idx[i]][col]]]]
    /\ structure = Structure2
    /\ responses = <<>>
    /\ score = N(0)
    /\ weights = NoWeights
    /\ metric_scores = NoScores
    /\ benchmark = NoBenchmark
    /\ scaler = NoScaler
    /\ improvement_actions = NoActions
    /\ now = 0
    /\ config = NoConfig
    /\ items_bank = NoBank
    /\ results = NoResults

\* analyzer.perform_clustering_analysis(data, structure), first and second
\* run
PerformClusteringAnalysis ==
    /\ ~Done("perform_clustering_analysis_again")
    /\ Store(IF Done("perform_clustering_analysis")
             THEN "perform_clustering_analysis_again"
             ELSE "perform_clustering_analysis",
             perform_clustering_analysis(data, structure))
    /\ scaler' = ScalerAfterClustering(data, structure, scaler)
    /\ UNCHANGED <<arguments, objects>>

\* the scaler has been fitted on at most n rows
SeenAtMost(sc, n) ==
    sc.fitted => \A j \in 1..Len(sc.stats) : sc.stats[j].n_samples_seen_ <= n

\* analyzer.perform_clustering_analysis on other data
EarlierCall ==
    /\ ~Done("perform_clustering_analysis_again")
    /\ SeenAtMost(scaler, MaxCluRows)
    /\ \E f \in EarlierFrames :
          scaler' = ScalerAfterClustering(f, structure, scaler)
    /\ UNCHANGED <<arguments, objects, results>>

\* analyzer = QualityCultureAnalyzer()
NewAnalyzer ==
    /\ ~Done("perform_clustering_analysis_again")
    /\ scaler # NoScaler
    /\ scaler' = NoScaler
    /\ UNCHANGED <<arguments, objects, results>>

NextClu == PerformClusteringAnalysis \/ EarlierCall \/ NewAnalyzer

SpecClu == InitClu /\ [][NextClu]_vars

(***************************************************************************)
(* Claims on clustering                                                   *)
(***************************************************************************)
\* no dimension has all its items in the data
NoUsableDimension == Len(ScoredEntries(data, structure)) = 0

\* C16: with no usable dimension perform_clustering_analysis returns
\* n_clusters = 0 and no cluster, without failing; in every other case it
\* returns a number of clusters in 2..6 that does not exceed the number of
\* respondents.
C16_ClusterCountBounded ==
    Done("perform_clustering_analysis") =>
        LET r == results["perform_clustering_analysis"]
        IN  /\ ~Raised(r)
            /\ NoUsableDimension => r.n_clusters = 0 /\ DOMAIN r.clusters = {}
            /\ ~NoUsableDimension =>
                  /\ r.n_clusters \in 2..6
                  /\ r.n_clusters <= Len(data.rows)

C30_NpqsImplementationsAgree ==
    Len(responses) > 0 /\ Done("calculate_npqs") /\ Done("calculate_npqs_score") =>
        LET a == results["calculate_npqs"]
            b == results["calculate_npqs_score"]
        IN  /\ Eq(a.npqs, b.npqs_score)
            /\ Eq(a.promoter_pct, b.promoters_pct)
            /\ Eq(a.passive_pct, b.passives_pct)
            /\ Eq(a.detractor_pct, b.detractors_pct)

(***************************************************************************)
(* Specification of the rounding family: dimension scores and reliability *)
(* of data whose mean score or alpha lies just below a threshold          *)
(***************************************************************************)
MaxRndRows == 7

\* seven respondents on the 1-5 scale; the alpha of L1 and L2 over all of
\* them is 142/203 = 0.6995...
RoundingPool ==
    << [L1 |-> N(2), L2 |-> N(1), P1 |-> N(4)],
       [L1 |-> N(1), L2 |-> N(3), P1 |-> N(3)],
       [L1 |-> N(1), L2 |-> N(1), P1 |-> N(5)],
       [L1 |-> N(1), L2 |-> N(1), P1 |-> N(2)],
       [L1 |-> N(4), L2 |-> N(4), P1 |-> N(4)],
       [L1 |-> N(1), L2 |-> N(5), P1 |-> N(1)],
       [L1 |-> N(5), L2 |-> N(5), P1 |-> N(3)] >>

\* a respondent whose answer to P1 is 3.9998, of score 79.996
NearThreshold == [L1 |-> N(4), L2 |-> N(4), P1 |-> Rat(19999, 5000)]

\* the rows of the pool numbered in sel, in the order of the pool
Selection(sel) ==
    SelectSeq(RoundingPool, LAMBDA r : \E i \in sel : RoundingPool[i] = r)

InitRnd ==
    /\ \E c \in SUBSET Items :
          \/ \E sel \in SUBSET (1..Len(RoundingPool)) :
                /\ Cardinality(sel) <= MaxRndRows
                /\ data = [columns |-> c,
                           rows |-> [i \in 1..Len(Selection(sel)) |->
                                       [col \in c |-> Selection(sel)[i][col]]]]
          \/ \E m \in 1..2 :
                data = [columns |-> c,
                        rows |-> [i \in 1..m |-> [col \in c |-> NearThreshold[col]]]]
    /\ structure = Structure2
    /\ responses = <<>>
    /\ score = N(0)
    /\ weights = NoWeights
    /\ metric_scores = NoScores
    /\ benchmark = NoBenchmark
    /\ scaler = NoScaler
    /\ improvement_actions = NoActions
    /\ now = 0
    /\ config = NoConfig
    /\ items_bank = NoBank
    /\ results = NoResults

NextRnd == CalculateDimensionScores \/ AssessReliability

SpecRnd == InitRnd /\ [][NextRnd]_vars

(***************************************************************************)
(* Claims on reported values and the flags reported with them             *)
(***************************************************************************)
\* the level of the threshold table for a score
TableRank(s) ==
    IF Ge(s, N(80)) THEN 4 ELSE IF Ge(s, N(60)) THEN 3
    ELSE IF Ge(s, N(40)) THEN 2 ELSE 1

\* C29 as stated: the reported maturity_level is at least the level of the
\* threshold table applied to the reported mean_score, and an alpha whose
\* reported value is >= the threshold is flagged acceptable.
C29_ReportedValuesAgree ==
    /\ Done("calculate_dimension_scores") =>
          LET r == results["calculate_dimension_scores"]
          IN  \A d \in DOMAIN r :
                 IsNum(r[d].mean_score) =>
                    Rank4(r[d].maturity_level) >= TableRank(r[d].mean_score)
    /\ Done("assess_reliability") =>
          LET r == results["assess_reliability"].cronbach_alpha
          IN  \A d \in DOMAIN r :
                 Ge(r[d].value, alpha_threshold) => r[d].acceptable

\* the mean score of a dimension before rounding
ExactMeanScore(d) ==
    NanMean([i \in 1..Len(data.rows) |->
                Mul(NanMean(RowItems(data, ItemsOf(structure, d), i)), N(20))])

\* Cronbach's alpha of a dimension before rounding, taken as 0 unless it is
\* a positive number
ExactAlpha(d) ==
    LET df == SubFrame(data, ItemsOf(structure, d))
    IN  IF IsEmpty(df) \/ Cardinality(df.columns) < 2 THEN N(0)
        ELSE IF Eq(TotalVar(df), N(0)) THEN N(0)
        ELSE IF Gt(AlphaFormula(df), N(0)) THEN AlphaFormula(df)
        ELSE N(0)

\* C29: the reported maturity_level is the level of the threshold table for
\* the mean score before rounding, and the flag of an alpha is taken on the
\* alpha before rounding; the level is that of the table for the reported
\* mean_score unless the reported mean_score is 40, 60 or 80, where it may
\* be one level lower, and a reported alpha above the threshold is flagged
\* acceptable, one below it is not.
C29_FlagsFromUnroundedValues ==
    /\ Done("calculate_dimension_scores") =>
          LET r == results["calculate_dimension_scores"]
          IN  \A d \in DOMAIN r :
                 IsNum(r[d].mean_score) =>
                    /\ Eq(r[d].mean_score, Round(ExactMeanScore(d), 100))
                    /\ Rank4(r[d].maturity_level) = TableRank(ExactMeanScore(d))
                    /\ Rank4(r[d].maturity_level) <= TableRank(r[d].mean_score)
                    /\ Rank4(r[d].maturity_level) >= TableRank(r[d].mean_score) - 1
                    /\ Rank4(r[d].maturity_level) < TableRank(r[d].mean_score) =>
                          \E t \in {40, 60, 80} : Eq(r[d].mean_score, N(t))
    /\ Done("assess_reliability") =>
          LET r == results["assess_reliability"].cronbach_alpha
          IN  \A d \in DOMAIN r :
                 /\ Eq(r[d].value, Round(ExactAlpha(d), 1000))
                 /\ r[d].acceptable <=> Ge(ExactAlpha(d), alpha_threshold)
                 /\ Gt(r[d].value, alpha_threshold) => r[d].acceptable
                 /\ Lt(r[d].value, alpha_threshold) => ~r[d].acceptable

\* an alpha reported as 0.7 that is not flagged acceptable
C29_Witness ==
    /\ Done("assess_reliability")
    /\ "Leadership" \in DOMAIN results["assess_reliability"].cronbach_alpha
    /\ Eq(results["assess_reliability"].cronbach_alpha["Leadership"].value,
          alpha_threshold)
    /\ ~results["assess_reliability"].cronbach_alpha["Leadership"].acceptable

(***************************************************************************)
(* Specification of the validation-report family: run_full_validation on  *)
(* samples of up to 2 * MaxRepCopies + 1 respondents                      *)
(***************************************************************************)
MaxRepCopies == 10

\* the respondents of the samples: two who answer all items alike, and one
\* who does not
ReportPool ==
    << [L1 |-> N(1), L2 |-> N(1), P1 |-> N(1)],
       [L1 |-> N(5), L2 |-> N(5), P1 |-> N(4)],
       [L1 |-> N(1), L2 |-> N(5), P1 |-> N(2)] >>

ReportStructures ==
    {Structure2,
     <<[dimension |-> "Leadership", items |-> <<"L1", "L2">>]>>,
     <<[dimension |-> "Processus", items |-> <<"P1">>]>>}

\* a copies of the first respondent, b of the second and c of the third
Sample(a, b, c) ==
    [i \in 1..(a + b + c) |->
        IF i <= a THEN ReportPool[1]
        ELSE IF i <= a + b THEN ReportPool[2] ELSE ReportPool[3]]

InitRep ==
    /\ \E cols \in SUBSET Items :
         \E a \in 0..MaxRepCopies : \E b \in 0..MaxRepCopies : \E c \in 0..1 :
            data = [columns |-> cols,
                    rows |-> [i \in 1..(a + b + c) |->
                                [col \in cols |-> Sample(a, b, c)[i][col]]]]
    /\ structure \in ReportStructures
    /\ responses = <<>>
    /\ score = N(0)
    /\ weights = NoWeights
    /\ metric_scores = NoScores
    /\ benchmark = NoBenchmark
    /\ scaler = NoScaler
    /\ improvement_actions = NoActions
    /\ now = 0
    /\ config = NoConfig
    /\ items_bank = NoBank
    /\ results = NoResults

NextRep == RunFullValidation

SpecRep == InitRep /\ [][NextRep]_vars

(***************************************************************************)
(* Claims on the recommendations of the validation report                 *)
(***************************************************************************)
\* the recommendations that the sections of report r call for
CalledFor(r) ==
    (IF ~r.reliability.overall_reliability
     THEN {"Improve reliability by adding items or refining existing ones"}
     ELSE {})
    \cup {"Improve convergent validity for dimension: " \o d :
             d \in {e \in DOMAIN r.validity.convergent_validity :
                       ~r.validity.convergent_validity[e].acceptable}}
    \cup (IF ~r.sample_adequacy.adequacy_10_1
          THEN {"Increase sample size to at least "
                \o ToString(r.sample_adequacy.recommended_minimum) \o " responses"}
          ELSE {})
    \cup (IF ~r.dimensionality.dimensionality_adequate
          THEN {"Review dimension structure based on factor analysis"}
          ELSE {})

\* C22: the recommendations of run_full_validation are the reliability
\* recommendation iff overall_reliability is false, one convergent-validity
\* recommendation per scored dimension whose AVE is not acceptable, the
\* sample-size recommendation naming recommended_minimum iff adequacy_10_1
\* is false and the dimensionality recommendation iff
\* dimensionality_adequate is false, each once and nothing else.
C22_RecommendationsDerived ==
    (Done("run_full_validation") /\ ~Raised(results["run_full_validation"])) =>
        LET r == results["run_full_validation"]
        IN  /\ Range(r.recommendations) = CalledFor(r)
            /\ Len(r.recommendations) = Cardinality(CalledFor(r))
            /\ DOMAIN r.validity.convergent_validity
                  = {structure[i].dimension : i \in 1..Len(structure)}

\* a report of a reliable dimension on a sample that is too small: the only
\* recommendation is the one on the sample size
C22_Witness ==
    /\ Done("run_full_validation")
    /\ ~Raised(results["run_full_validation"])
    /\ results["run_full_validation"].reliability.overall_reliability
    /\ ~results["run_full_validation"].sample_adequacy.adequacy_10_1
    /\ results["run_full_validation"].recommendations
          = <<"Increase sample size to at least 200 responses">>

(***************************************************************************)
(* Claims on the maturity levels of the pharmaceutical assessment         *)
(***************************************************************************)
RankPharma(l) == CHOOSE k \in DOMAIN maturity_matrix : maturity_matrix[k] = l

\* C23: PharmaQualityCultureAssessment._get_maturity_level maps every score
\* of [0, 100] to one of the five levels, the level never decreasing when
\* the score increases, and a score on a boundary (20, 40, 60, 80) gets the
\* higher level: level 1 below 20, 2 from 20, 3 from 40, 4 from 60 and 5
\* from 80.
C23_PharmaLevelClosedAbove ==
    (Done("Pharma_get_maturity_level") /\ IsNum(score)) =>
        LET r == results["Pharma_get_maturity_level"]
        IN  /\ ~Raised(r)
            /\ r.level \in Range(maturity_matrix)
            /\ RankPharma(r.level) <=
                  RankPharma(Pharma_get_maturity_level(NextScore(score)).level)
            /\ RankPharma(r.level) =
                  (IF Ge(score, N(80)) THEN 5 ELSE IF Ge(score, N(60)) THEN 4
                   ELSE IF Ge(score, N(40)) THEN 3
                   ELSE IF Ge(score, N(20)) THEN 2 ELSE 1)

(***************************************************************************)
(* Continuous improvement loop                                            *)
(*   src/src/continuous_improvement/pdca_loop.py  (PDCALoop)              *)
(*                                                                         *)
(* A text is the sequence of its words (the words of the model hold no    *)
(* white space and are joined by single spaces).  A dict of scores is the *)
(* sequence of its [area, score] entries in insertion order, the areas    *)
(* pairwise distinct; a score is a number of the arithmetic above or      *)
(* NotANumber, a value that is no int and no float.                       *)
(***************************************************************************)
NotANumber == [k |-> "str"]

HasKey(d, a) == \E i \in 1..Len(d) : d[i].area = a
Item(d, a) == d[CHOOSE i \in 1..Len(d) : d[i].area = a].score

\* f"Improve {area}"
Title(area) == <<"Improve">> \o area

\* title.replace("Improve ", ""): every "Improve" that a space follows goes;
\* the title is "Improve " + area, so a space follows its first word always
\* and any later word that is not the last
RECURSIVE Replace(_, _)
Replace(title, i) ==
    IF i > Len(title) THEN <<>>
    ELSE IF title[i] = "Improve" /\ (i = 1 \/ i < Len(title))
         THEN Replace(title, i + 1)
         ELSE <<title[i]>> \o Replace(title, i + 1)

\* datetime.now().strftime('%Y%m%d_%H%M%S'): the clock to the second
strftime(t) == ToString(t)

\* PDCALoop._identify_low_scoring_areas
_identify_low_scoring_areas(assessment) ==
    SelectSeq(assessment,
              LAMBDA e : e.score # NotANumber /\ Lt(e.score, N(80)))

ImprovementAction_always_medium(area, sc, t, index) ==
    [id |-> "IMP_" \o strftime(t) \o "_" \o ToString(index),
     title |-> Title(area),
     priority |-> "Medium",
     owner |-> "Quality Manager",
     status |-> "Planned",
     metrics |-> [target_score |-> N(80), current_score |-> sc]]

\* ImprovementAction(...) of plan_phase; index is len(actions)
ImprovementAction(area, sc, t, index) ==
    [id |-> "IMP_" \o strftime(t) \o "_" \o ToString(index),
     title |-> Title(area),
     priority |-> IF Lt(sc, N(50)) THEN "High" ELSE "Medium",
     owner |-> "Quality Manager",
     status |-> "Planned",
     metrics |-> [target_score |-> N(80), current_score |-> sc]]

\* the loop of plan_phase over low_scoring_areas.items()
RECURSIVE PlanActions(_, _, _)
PlanActions(low, t, actions) ==
    IF low = <<>> THEN actions
    ELSE PlanActions(Tail(low), t,
             IF Lt(Head(low).score, N(70))
             THEN Append(actions,
                         ImprovementAction(Head(low).area, Head(low).score,
                                           t, Len(actions)))
             ELSE actions)

\* PDCALoop.plan_phase: the actions it returns (acts is improvement_actions
\* before the call, which becomes acts \o plan_phase(...))
plan_phase(assessment, t) ==
    PlanActions(_identify_low_scoring_areas(assessment), t, <<>>)

\* next((a for a in self.improvement_actions if a.id == action_id), None):
\* the position of the first action with that id, 0 for None
Find(acts, action_id) ==
    IF \E i \in 1..Len(acts) : acts[i].id = action_id
    THEN CHOOSE i \in 1..Len(acts) :
            /\ acts[i].id = action_id
            /\ \A j \in 1..(i - 1) : acts[j].id # action_id
    ELSE 0

\* PDCALoop.do_phase: improvement_actions after the call
do_phase(acts, action_id, progress_update) ==
    IF Find(acts, action_id) = 0 THEN acts
    ELSE [acts EXCEPT ![Find(acts, action_id)] =
             [@ EXCEPT !.status = "In Progress",
                       !.metrics = progress_update @@ @]]

\* one pass of the loop of check_phase over the action at position i:
\* c is [acts, returned] or, once new_score - old_score has raised,
\* [acts, error]
CheckAction(c, i, reassessment) ==
    LET action == c.acts[i]
        area == Replace(action.title, 1)
    IN  IF Raised(c) \/ action.status # "In Progress"
           \/ ~HasKey(reassessment, area)
        THEN c
        ELSE IF Item(reassessment, area) = NotANumber
                \/ action.metrics.current_score = NotANumber
        THEN [acts |-> c.acts, error |-> "TypeError"]
        ELSE LET new_score == Item(reassessment, area)
                 improved == Gt(Sub(new_score, action.metrics.current_score),
                                N(5))
             IN  [acts |-> IF improved
                           THEN [c.acts EXCEPT ![i] =
                                    [@ EXCEPT !.status = "Completed",
                                              !.metrics =
                                                  ("final_score" :> new_score)
                                                      @@ @]]
                           ELSE c.acts,
                  returned |-> (action.id :> improved) @@ c.returned]

RECURSIVE CheckActions(_, _, _)
CheckActions(c, i, reassessment) ==
    IF i > Len(c.acts) THEN c
    ELSE CheckActions(CheckAction(c, i, reassessment), i + 1, reassessment)

\* PDCALoop.check_phase: [acts, returned], improvement_actions after the
\* call and the dict of the call, or [acts, error]
check_phase(acts, reassessment) ==
    CheckActions([acts |-> acts, returned |-> NoResults], 1, reassessment)

\* PDCALoop.act_phase with _create_standardization: the titles that get a
\* standardization document, each with the three scores the document prints
act_phase(acts, successful_actions) ==
    {[title |-> acts[Find(acts, id)].title,
      initial_score |-> acts[Find(acts, id)].metrics.current_score,
      final_score |->
          IF "final_score" \in DOMAIN acts[Find(acts, id)].metrics
          THEN acts[Find(acts, id)].metrics.final_score ELSE N(0)] :
       id \in {a \in Range(successful_actions) :
                  /\ Find(acts, a) # 0
                  /\ acts[Find(acts, a)].status = "Completed"}}

\* PDCALoop._calculate_improvement_trends: title.split()[1] needs a second
\* word, and the module never imports numpy, so np.mean raises for the
\* first category that has a Completed action; without one the dict is
\* empty
_calculate_improvement_trends(acts) ==
    IF \E i \in 1..Len(acts) : Len(acts[i].title) < 2
    THEN [error |-> "IndexError"]
    ELSE IF \E i \in 1..Len(acts) : acts[i].status = "Completed"
    THEN [error |-> "NameError"]
    ELSE [trends |-> NoResults]

WithStatus(acts, st) ==
    Len(SelectSeq(acts, LAMBDA a : a.status = st))

\* PDCALoop._generate_recommendations: completion_rate is completed / total
Loop_generate_recommendations(acts) ==
    IF Raised(_calculate_improvement_trends(acts))
    THEN _calculate_improvement_trends(acts)
    ELSE [recommendations |->
            (IF Len(acts) > 0
                /\ 10 * WithStatus(acts, "Completed") < 7 * Len(acts)
             THEN <<"Improve action execution - consider resource allocation">>
             ELSE <<>>)
            \o (IF Len(acts) > 0
                   /\ Len(SelectSeq(acts, LAMBDA a : a.priority = "High")) > 5
                THEN <<"Focus on high-priority improvements to maximize impact">>
                ELSE <<>>)]

\* PDCALoop.generate_improvement_report
generate_improvement_report(acts) ==
    IF Raised(_calculate_improvement_trends(acts))
    THEN _calculate_improvement_trends(acts)
    ELSE [total_actions |-> Len(acts),
          completed_actions |-> WithStatus(acts, "Completed"),
          in_progress |-> WithStatus(acts, "In Progress"),
          planned_actions |-> WithStatus(acts, "Planned"),
          improvement_trends |-> _calculate_improvement_trends(acts).trends,
          recommendations |->
              Loop_generate_recommendations(acts).recommendations]

(***************************************************************************)
(* Specification of the improvement loop: one PDCALoop, its clock, and    *)
(* the value the latest call returned                                     *)
(***************************************************************************)
MaxActions == 2
MaxSeconds == 1

Areas == {<<"Leadership">>, <<"Improve", "Process">>}
PlanScores == {N(45), N(65), N(75), NaN, NotANumber}
CheckScores == {N(70), N(71)}

\* the dicts that give some of the areas a score of S
Dicts(S) ==
    {d \in SeqsUpTo([area : Areas, score : S], Cardinality(Areas)) :
        \A i, j \in 1..Len(d) : i # j => d[i].area # d[j].area}

Assessments == Dicts(PlanScores)
Reassessments == Dicts(CheckScores)

ProgressUpdates == {[progress |-> N(50)], [current_score |-> N(66)]}

Ids == {"IMP_" \o strftime(t) \o "_" \o ToString(k) :
           t \in 0..MaxSeconds, k \in 0..(Cardinality(Areas) - 1)}

\* results holds the latest call: what it was given, the actions of the
\* loop before it, and what it returned
Returned(o, v) == results' = (o :> v)

InitLoop ==
    /\ responses = <<>>
    /\ data = NoFrame
    /\ structure = NoStructure
    /\ score = N(0)
    /\ weights = NoWeights
    /\ metric_scores = NoScores
    /\ benchmark = NoBenchmark
    /\ scaler = NoScaler
    /\ improvement_actions = NoActions
    /\ now = 0
    /\ config = NoConfig
    /\ items_bank = NoBank
    /\ results = NoResults

PlanPhase(assessment) ==
    /\ Len(improvement_actions) + Len(plan_phase(assessment, now)) <= MaxActions
    /\ improvement_actions' = improvement_actions \o plan_phase(assessment, now)
    /\ Returned("plan_phase", [assessment_results |-> assessment,
                               before |-> improvement_actions,
                               returned |-> plan_phase(assessment, now)])
    /\ UNCHANGED <<arguments, scaler, now, config, items_bank>>

DoPhase(action_id, progress_update) ==
    /\ improvement_actions' =
           do_phase(improvement_actions, action_id, progress_update)
    /\ Returned("do_phase", [before |-> improvement_actions])
    /\ UNCHANGED <<arguments, scaler, now, config, items_bank>>

CheckPhase(reassessment) ==
    /\ improvement_actions' = check_phase(improvement_actions, reassessment).acts
    /\ Returned("check_phase",
                IF Raised(check_phase(improvement_actions, reassessment))
                THEN [reassessment_results |-> reassessment,
                      before |-> improvement_actions,
                      error |-> "TypeError"]
                ELSE [reassessment_results |-> reassessment,
                      before |-> improvement_actions,
                      returned |->
                          check_phase(improvement_actions,
                                      reassessment).returned])
    /\ UNCHANGED <<arguments, scaler, now, config, items_bank>>

ActPhase(successful_actions) ==
    /\ Returned("act_phase",
                [before |-> improvement_actions,
                 returned |-> act_phase(improvement_actions,
                                        successful_actions)])
    /\ UNCHANGED inputs

GenerateImprovementReport ==
    /\ Returned("generate_improvement_report",
                generate_improvement_report(improvement_actions))
    /\ UNCHANGED inputs

\* the clock passes to the next second between two calls
Tick ==
    /\ now < MaxSeconds
    /\ now' = now + 1
    /\ UNCHANGED <<arguments, scaler, improvement_actions, config, items_bank,
                   results>>

NextLoop ==
    \/ \E assessment \in Assessments : PlanPhase(assessment)
    \/ \E id \in Ids : \E u \in ProgressUpdates : DoPhase(id, u)
    \/ \E reassessment \in Reassessments : CheckPhase(reassessment)
    \/ \E ids \in SeqsUpTo(Ids, 1) : ActPhase(ids)
    \/ GenerateImprovementReport
    \/ Tick

SpecLoop == InitLoop /\ [][NextLoop]_vars

\* the loop while it is planned and worked on, before any reassessment
NextPlan ==
    \/ \E assessment \in Assessments : PlanPhase(assessment)
    \/ \E id \in Ids : \E u \in ProgressUpdates : DoPhase(id, u)

SpecPlan == InitLoop /\ [][NextPlan]_vars

(***************************************************************************)
(* Claims on the improvement loop                                         *)
(***************************************************************************)
\* the actions a call appended to the list
Appended(before, after) == SubSeq(after, Len(before) + 1, Len(after))

NeedsAction(assessment, area) ==
    /\ HasKey(assessment, area)
    /\ Item(assessment, area) # NotANumber
    /\ Lt(Item(assessment, area), N(70))

\* C24: plan_phase creates exactly one action with status Planned for each
\* area whose score is numeric and below 70 and none for any other area;
\* its priority is High iff the score is below 50 and Medium otherwise; the
\* new actions are appended to improvement_actions and the existing actions
\* are left unchanged.
C24_PlanPhaseOneActionPerLowArea ==
    "plan_phase" \in DOMAIN results =>
        LET call == results["plan_phase"]
            new == Appended(call.before, improvement_actions)
        IN  /\ new = call.returned
            /\ SubSeq(improvement_actions, 1, Len(call.before)) = call.before
            /\ \A area \in Areas :
                  Cardinality({i \in 1..Len(new) : new[i].title = Title(area)})
                      = IF NeedsAction(call.assessment_results, area)
                        THEN 1 ELSE 0
            /\ \A i \in 1..Len(new) :
                  /\ new[i].status = "Planned"
                  /\ \E area \in Areas :
                        /\ new[i].title = Title(area)
                        /\ NeedsAction(call.assessment_results, area)
                        /\ new[i].priority =
                              IF Lt(Item(call.assessment_results, area), N(50))
                              THEN "High" ELSE "Medium"

C24_Witness ==
    /\ "plan_phase" \in DOMAIN results
    /\ Len(improvement_actions) = 2
    /\ improvement_actions[1].status = "In Progress"
    /\ "progress" \in DOMAIN improvement_actions[1].metrics
    /\ Len(results["plan_phase"].returned) = 1
    /\ improvement_actions[2] = results["plan_phase"].returned[1]
    /\ improvement_actions[2].priority = "High"
    /\ improvement_actions[2].status = "Planned"

\* the area an action was planned for: its title is "Improve " + area
AreaOf(action) == Tail(action.title)

Improved(action, reassessment) ==
    /\ HasKey(reassessment, AreaOf(action))
    /\ Gt(Sub(Item(reassessment, AreaOf(action)),
              action.metrics.current_score), N(5))

\* C25: check_phase changes the status of an action only from In Progress
\* to Completed, and does so iff the reassessment contains the action's
\* area with a score that exceeds the recorded current_score by strictly
\* more than 5; Planned and Completed actions, and In Progress actions whose
\* area is absent or improved by 5 or less, keep their status and metrics.
C25_CheckPhaseCompletesImproved ==
    ("check_phase" \in DOMAIN results /\ ~Raised(results["check_phase"])) =>
        LET call == results["check_phase"]
        IN  /\ Len(improvement_actions) = Len(call.before)
            /\ \A i \in 1..Len(call.before) :
                  IF call.before[i].status = "In Progress"
                     /\ Improved(call.before[i], call.reassessment_results)
                  THEN improvement_actions[i].status = "Completed"
                  ELSE /\ improvement_actions[i].status = call.before[i].status
                       /\ improvement_actions[i].metrics
                              = call.before[i].metrics

StatusRank(st) ==
    IF st = "Planned" THEN 1 ELSE IF st = "In Progress" THEN 2 ELSE 3

\* C26: the status of an action only advances Planned -> In Progress ->
\* Completed: whatever call of plan_phase, do_phase, check_phase or
\* act_phase comes, no action falls back to an earlier status, a Completed
\* action stays Completed and keeps its final_score.
C26_StatusOnlyAdvances ==
    \A o \in DOMAIN results :
        "before" \in DOMAIN results[o] =>
            /\ Len(improvement_actions) >= Len(results[o].before)
            /\ \A i \in 1..Len(results[o].before) :
                  /\ StatusRank(improvement_actions[i].status)
                        >= StatusRank(results[o].before[i].status)
                  /\ results[o].before[i].status = "Completed" =>
                        /\ improvement_actions[i].status = "Completed"
                        /\ improvement_actions[i].metrics.final_score
                              = results[o].before[i].metrics.final_score

\* C27: after any sequence of plan_phase calls, several of them within one
\* second of the clock included, the actions of improvement_actions have
\* pairwise distinct ids.
C27_ActionIdsDistinct ==
    \A i, j \in 1..Len(improvement_actions) :
        i # j => improvement_actions[i].id # improvement_actions[j].id

\* C28: in every state that plan_phase, do_phase and check_phase reach,
\* generate_improvement_report returns a report, also when an action is
\* Completed, and in it total_actions = completed_actions + in_progress +
\* planned_actions.
C28_ReportReturnedAndAddsUp ==
    "generate_improvement_report" \in DOMAIN results =>
        LET report == results["generate_improvement_report"]
        IN  /\ ~Raised(report)
            /\ report.total_actions =
                  report.completed_actions + report.in_progress
                      + report.planned_actions

(***************************************************************************)
(* Assessment engine                                                      *)
(*   src/src/core/assessment_engine.py  (QualityCultureAssessment)        *)
(*                                                                         *)
(* An item is named by its id.  A Python list is an object: a returned    *)
(* list that is the list of the bank itself (shared) changes whenever the *)
(* bank's list changes, a slice is a list of its own.  The framework and  *)
(* the scoring method of a structure are fixed by the configuration when  *)
(* the engine is built and are left out.                                  *)
(***************************************************************************)
Sectors == {"generic", "pharmaceutical", "healthcare", "education",
            "manufacturing", "financial"}
Versions == {"freemium", "premium"}

\* QualityCultureAssessment._load_items_bank with the four _load_*_items
_load_items_bank ==
    [generic |-> <<"L1", "B3", "P2">>,
     pharmaceutical |-> <<"PH1", "PH2">>,
     healthcare |-> <<"HC1">>,
     education |-> <<"ED1">>]

freemium_limit == 20

\* base_items.extend(sector_items) of _select_items: the bank after a call
BankAfterSelect(bank, cfg) ==
    IF cfg.sector # "generic" /\ cfg.sector \in DOMAIN bank
    THEN [bank EXCEPT !.generic = @ \o bank[cfg.sector]]
    ELSE bank

\* QualityCultureAssessment._select_items: the bank after the call and the
\* list returned, base_items[:20] or base_items itself
_select_items(bank, cfg) ==
    [bank |-> BankAfterSelect(bank, cfg),
     items |-> IF cfg.version = "freemium"
               THEN SubSeq(BankAfterSelect(bank, cfg).generic, 1,
                           IF Len(BankAfterSelect(bank, cfg).generic)
                                  < freemium_limit
                           THEN Len(BankAfterSelect(bank, cfg).generic)
                           ELSE freemium_limit)
               ELSE BankAfterSelect(bank, cfg).generic,
     shared |-> cfg.version # "freemium"]

\* QualityCultureAssessment._get_validation_criteria, which selects the
\* items once more
_get_validation_criteria(bank, cfg) ==
    [bank |-> _select_items(bank, cfg).bank,
     minimum_sample_size |->
         IF 200 > Len(_select_items(bank, cfg).items) * 10
         THEN 200 ELSE Len(_select_items(bank, cfg).items) * 10]

\* QualityCultureAssessment.generate_assessment: "items" of the structure is
\* the list of the first selection as it is when the call returns
generate_assessment(bank, cfg) ==
    [bank |-> _get_validation_criteria(_select_items(bank, cfg).bank, cfg).bank,
     items |-> IF _select_items(bank, cfg).shared
               THEN _get_validation_criteria(_select_items(bank, cfg).bank,
                                             cfg).bank.generic
               ELSE _select_items(bank, cfg).items,
     shared |-> _select_items(bank, cfg).shared,
     minimum_sample_size |->
         _get_validation_criteria(_select_items(bank, cfg).bank,
                                  cfg).minimum_sample_size]

(***************************************************************************)
(* Specification of the assessment engine: one QualityCultureAssessment   *)
(* and the lists its calls have returned so far                           *)
(***************************************************************************)
MaxCalls == 6

Calls(o) == IF o \in DOMAIN results THEN results[o] ELSE <<>>

\* the lists returned so far, as they are once the bank has become b
Aliased(calls, b) ==
    [i \in 1..Len(calls) |->
        IF calls[i].shared THEN [calls[i] EXCEPT !.items = b.generic]
        ELSE calls[i]]

InitEng ==
    /\ responses = <<>>
    /\ data = NoFrame
    /\ structure = NoStructure
    /\ score = N(0)
    /\ weights = NoWeights
    /\ metric_scores = NoScores
    /\ benchmark = NoBenchmark
    /\ scaler = NoScaler
    /\ improvement_actions = NoActions
    /\ now = 0
    /\ config \in [sector : Sectors, version : Versions]
    /\ items_bank = _load_items_bank
    /\ results = NoResults

SelectItems ==
    /\ Len(Calls("_select_items")) + Len(Calls("generate_assessment")) < MaxCalls
    /\ items_bank' = _select_items(items_bank, config).bank
    /\ results' =
          [o \in {"_select_items", "generate_assessment"} |->
              Aliased(IF o = "_select_items"
                      THEN Append(Calls(o),
                                  [items |-> _select_items(items_bank,
                                                           config).items,
                                   shared |-> _select_items(items_bank,
                                                            config).shared])
                      ELSE Calls(o),
                      _select_items(items_bank, config).bank)]
    /\ UNCHANGED <<arguments, scaler, improvement_actions, now, config>>

GenerateAssessment ==
    /\ Len(Calls("_select_items")) + Len(Calls("generate_assessment")) < MaxCalls
    /\ items_bank' = generate_assessment(items_bank, config).bank
    /\ results' =
          [o \in {"_select_items", "generate_assessment"} |->
              Aliased(IF o = "generate_assessment"
                      THEN Append(Calls(o),
                                  [items |-> generate_assessment(
                                                 items_bank, config).items,
                                   shared |-> generate_assessment(
                                                  items_bank, config).shared,
                                   minimum_sample_size |->
                                       generate_assessment(
                                           items_bank,
                                           config).minimum_sample_size])
                      ELSE Calls(o),
                      generate_assessment(items_bank, config).bank)]
    /\ UNCHANGED <<arguments, scaler, improvement_actions, now, config>>

NextEng == SelectItems \/ GenerateAssessment

SpecEng == InitEng /\ [][NextEng]_vars

(***************************************************************************)
(* Claims on the assessment engine                                        *)
(***************************************************************************)
NoDuplicate(items) ==
    \A i, j \in 1..Len(items) : i # j => items[i] # items[j]

\* C21: after any number of calls of generate_assessment and _select_items
\* on one QualityCultureAssessment the stored items bank is as it was
\* loaded, all calls have returned the same item list, and no returned list
\* holds an item id twice.
C21_ItemsBankNeverMutated ==
    /\ items_bank = _load_items_bank
    /\ \A o, q \in DOMAIN results :
          \A i \in 1..Len(results[o]) : \A j \in 1..Len(results[q]) :
              results[o][i].items = results[q][j].items
    /\ \A o \in DOMAIN results :
          \A i \in 1..Len(results[o]) : NoDuplicate(results[o][i].items)

====
